---- MODULE Spec2Model ----
(***************************************************************************)
(* GrammarZen: the diff-alignment and issue-highlighting core of the       *)
(* result view (src/components/ResultView.tsx) and the streaming result    *)
(* parser of the model service (services/geminiService).                   *)
(*                                                                         *)
(* Texts are sequences of one-character strings.  JavaScript offsets are   *)
(* 0-based; Sequences are 1-based, so s[i+1] is the character at offset i. *)
(***************************************************************************)
EXTENDS Integers, Sequences, FiniteSets, TLC

(***************************************************************************)
(* Bounds of the model.                                                    *)
(***************************************************************************)
MaxLen == 3        \* longest original / corrected text drawn by InitLocate
MaxDoc == 2        \* longest original text of a check served to the view

Chars == {"a", "b"}

RECURSIVE SeqsOfLen(_, _)
SeqsOfLen(S, n) ==
  IF n = 0 THEN {<<>>}
  ELSE {Append(s, c) : s \in SeqsOfLen(S, n - 1), c \in S}

SeqsUpTo(S, n) == UNION {SeqsOfLen(S, k) : k \in 0..n}

(***************************************************************************)
(* JavaScript string primitives used by the code.                          *)
(***************************************************************************)
\* s.substring(from, to) with 0 <= from <= to <= s.length
Substring(s, from, to) == SubSeq(s, from + 1, to)

\* s.startsWith(p, at)
StartsWithAt(s, p, at) ==
  /\ at + Len(p) <= Len(s)
  /\ \A k \in 1..Len(p) : s[at + k] = p[k]

\* s.indexOf(p): offset of the first occurrence, -1 when there is none;
\* the empty pattern is found at offset 0.
indexOf(s, p) ==
  LET hits == {i \in 0..(Len(s) - Len(p)) : StartsWithAt(s, p, i)}
  IN IF hits = {} THEN -1 ELSE CHOOSE i \in hits : \A j \in hits : i <= j

\* s.replace(p, r) with a string pattern: only the first occurrence is
\* replaced; the empty pattern matches at offset 0.
replace(s, p, r) ==
  LET at == indexOf(s, p)
  IN IF at = -1 THEN s
     ELSE Substring(s, 0, at) \o r \o Substring(s, at + Len(p), Len(s))

(***************************************************************************)
(* diffChars of the 'diff' package (imported at ResultView.tsx:5): the     *)
(* greedy shortest-edit-script search over diagonals, with the package's   *)
(* post-pass that puts a removal before the insertion it follows.          *)
(***************************************************************************)
NoPath == [newPos |-> -2, components |-> <<>>]

RECURSIVE commonCount(_, _, _, _)
commonCount(newString, oldString, newPos, oldPos) ==
  IF /\ newPos + 1 < Len(newString)
     /\ oldPos + 1 < Len(oldString)
     /\ newString[newPos + 2] = oldString[oldPos + 2]
  THEN 1 + commonCount(newString, oldString, newPos + 1, oldPos + 1)
  ELSE 0

\* extractCommon: follow the diagonal while the characters agree
extractCommon(basePath, newString, oldString, diagonalPath) ==
  LET n == commonCount(newString, oldString, basePath.newPos,
                       basePath.newPos - diagonalPath)
  IN [newPos |-> basePath.newPos + n,
      components |->
        IF n > 0
        THEN Append(basePath.components,
                    [count |-> n, added |-> FALSE, removed |-> FALSE])
        ELSE basePath.components]

pushComponent(components, added, removed) ==
  LET n == Len(components)
  IN IF n > 0 /\ components[n].added = added /\ components[n].removed = removed
     THEN [components EXCEPT ![n].count = @ + 1]
     ELSE Append(components, [count |-> 1, added |-> added, removed |-> removed])

PathAt(bestPath, d) == IF d \in DOMAIN bestPath THEN bestPath[d] ELSE NoPath

\* One pass of execEditLength over the diagonals d, d+2, ..., editLength.
\* prev holds the paths of the previous edit length, cur those of this one.
RECURSIVE execDiagonals(_, _, _, _, _, _)
execDiagonals(oldString, newString, prev, cur, editLength, d) ==
  IF d > editLength THEN [done |-> FALSE, bestPath |-> cur, components |-> <<>>]
  ELSE
    LET addPath == PathAt(prev, d - 1)
        removePath == PathAt(prev, d + 1)
        oldPos == (IF removePath # NoPath THEN removePath.newPos ELSE 0) - d
        canAdd == addPath # NoPath /\ addPath.newPos + 1 < Len(newString)
        canRemove == removePath # NoPath /\ 0 <= oldPos /\ oldPos < Len(oldString)
    IN IF ~canAdd /\ ~canRemove
       THEN execDiagonals(oldString, newString, prev, cur, editLength, d + 2)
       ELSE
         LET moved ==
               IF ~canAdd \/ (canRemove /\ addPath.newPos < removePath.newPos)
               THEN [newPos |-> removePath.newPos,
                     components |-> pushComponent(removePath.components, FALSE, TRUE)]
               ELSE [newPos |-> addPath.newPos + 1,
                     components |-> pushComponent(addPath.components, TRUE, FALSE)]
             basePath == extractCommon(moved, newString, oldString, d)
         IN IF /\ basePath.newPos + 1 >= Len(newString)
               /\ (basePath.newPos - d) + 1 >= Len(oldString)
            THEN [done |-> TRUE, bestPath |-> cur, components |-> basePath.components]
            ELSE execDiagonals(oldString, newString, prev,
                               [k \in DOMAIN cur \cup {d} |->
                                  IF k = d THEN basePath ELSE cur[k]],
                               editLength, d + 2)

RECURSIVE execEditLength(_, _, _, _)
execEditLength(oldString, newString, bestPath, editLength) ==
  LET r == execDiagonals(oldString, newString, bestPath, <<>>,
                         editLength, -editLength)
  IN IF r.done THEN r.components
     ELSE execEditLength(oldString, newString, r.bestPath, editLength + 1)

\* buildValues: give every component its text, and swap a removal with the
\* insertion right before it so that removals come first.
RECURSIVE buildValues(_, _, _, _, _, _)
buildValues(components, newString, oldString, pos, newPos, oldPos) ==
  IF pos > Len(components) THEN components
  ELSE
    LET c == components[pos]
    IN IF ~c.removed
       THEN buildValues(
              [components EXCEPT ![pos] =
                 [value |-> Substring(newString, newPos, newPos + c.count),
                  count |-> c.count, added |-> c.added, removed |-> FALSE]],
              newString, oldString, pos + 1, newPos + c.count,
              IF c.added THEN oldPos ELSE oldPos + c.count)
       ELSE
         LET valued == [value |-> Substring(oldString, oldPos, oldPos + c.count),
                        count |-> c.count, added |-> FALSE, removed |-> TRUE]
             swapped ==
               IF pos > 1 /\ components[pos - 1].added
               THEN [components EXCEPT ![pos - 1] = valued,
                                       ![pos] = components[pos - 1]]
               ELSE [components EXCEPT ![pos] = valued]
         IN buildValues(swapped, newString, oldString, pos + 1, newPos,
                        oldPos + c.count)

Change(c) == [value |-> c.value, added |-> c.added, removed |-> c.removed]

diffChars(oldString, newString) ==
  LET seed == extractCommon([newPos |-> -1, components |-> <<>>],
                            newString, oldString, 0)
  IN IF seed.newPos + 1 >= Len(newString) /\ seed.newPos + 1 >= Len(oldString)
     THEN <<[value |-> newString, added |-> FALSE, removed |-> FALSE]>>
     ELSE LET components == execEditLength(oldString, newString,
                                           [k \in {0} |-> seed], 1)
              built == buildValues(components, newString, oldString, 1, 0, 0)
          IN [k \in 1..Len(built) |-> Change(built[k])]

(***************************************************************************)
(* Issues (src/types.ts).  An issue is original / suggestion / type; the   *)
(* free-text reason takes part in no decision of the code and is left out. *)
(***************************************************************************)
Issue(original, suggestion, type) ==
  [original |-> original, suggestion |-> suggestion, type |-> type]

\* ProofreadResult; summary and score take part in no decision modelled here
ProofreadResult(correctedText, issues) ==
  [correctedText |-> correctedText, issues |-> issues]

(***************************************************************************)
(* issueLocations (ResultView.tsx:399-460).                                *)
(***************************************************************************)
NoBlock == [origStart |-> -1, origEnd |-> -1, origText |-> <<>>, corrText |-> <<>>]

\* The loop over the changes (lines 408-429): k is the next change, oIdx the
\* offset in the original, currentBlock the open block or NoBlock.
RECURSIVE changeBlocksFrom(_, _, _, _, _)
changeBlocksFrom(changes, k, oIdx, currentBlock, blocks) ==
  IF k > Len(changes)
  THEN IF currentBlock # NoBlock THEN Append(blocks, currentBlock) ELSE blocks
  ELSE
    LET change == changes[k]
        n == Len(change.value)
    IN IF change.added \/ change.removed
       THEN
         LET opened == IF currentBlock = NoBlock
                       THEN [origStart |-> oIdx, origEnd |-> oIdx,
                             origText |-> <<>>, corrText |-> <<>>]
                       ELSE currentBlock
             afterRemoved ==
               IF change.removed
               THEN [opened EXCEPT !.origText = @ \o change.value,
                                   !.origEnd = @ + n]
               ELSE opened
             afterAdded ==
               IF change.added
               THEN [afterRemoved EXCEPT !.corrText = @ \o change.value]
               ELSE afterRemoved
         IN changeBlocksFrom(changes, k + 1,
                             IF change.removed THEN oIdx + n ELSE oIdx,
                             afterAdded, blocks)
       ELSE changeBlocksFrom(changes, k + 1, oIdx + n, NoBlock,
                             IF currentBlock # NoBlock
                             THEN Append(blocks, currentBlock) ELSE blocks)

changeBlocks(changes) == changeBlocksFrom(changes, 1, 0, NoBlock, <<>>)

\* line 440
hasMatch(block, issue) ==
  \/ issue.original # <<>> /\ indexOf(block.origText, issue.original) # -1
  \/ issue.suggestion # <<>> /\ indexOf(block.corrText, issue.suggestion) # -1

\* the search for a matching block restarted at block 0 whatever the cursor
firstMatchingBlockFromStart(blocks, issue, i) ==
  LET hits == {j \in 0..(Len(blocks) - 1) : hasMatch(blocks[j + 1], issue)}
  IN IF hits = {} THEN -1 ELSE CHOOSE j \in hits : \A h \in hits : j <= h

\* The for loop of lines 435-457: the 0-based index of the first block at or
\* after i that matches, -1 when the loop runs out.
RECURSIVE firstMatchingBlock(_, _, _)
firstMatchingBlock(blocks, issue, i) ==
  IF i >= Len(blocks) THEN -1
  ELSE IF hasMatch(blocks[i + 1], issue) THEN i
  ELSE firstMatchingBlock(blocks, issue, i + 1)

Unlocated == [start |-> -1, end |-> -1]

\* the location of a matched issue as offsets within the block's deleted
\* text, without the block's start added
locationInBlockRelative(block, issue) ==
  LET origMatch == indexOf(block.origText, issue.original)
  IN IF issue.original # <<>> /\ origMatch # -1
     THEN [start |-> origMatch, end |-> origMatch + Len(issue.original)]
     ELSE [start |-> 0, end |-> 0]

\* lines 443-453: the location of an issue matched in block
locationIn(block, issue) ==
  LET origMatch == indexOf(block.origText, issue.original)
  IN IF issue.original # <<>> /\ origMatch # -1
     THEN [start |-> block.origStart + origMatch,
           end |-> block.origStart + origMatch + Len(issue.original)]
     ELSE [start |-> block.origStart, end |-> block.origStart]

\* The forEach of lines 434-458 from issue idx on; cursorAt[i] records the
\* value of blockCursor after issue i was processed.
RECURSIVE locateFrom(_, _, _, _, _, _)
locateFrom(blocks, issues, idx, blockCursor, locations, cursorAt) ==
  IF idx > Len(issues)
  THEN [locations |-> locations, blockCursor |-> blockCursor,
        cursorAt |-> cursorAt]
  ELSE
    LET i == firstMatchingBlock(blocks, issues[idx], blockCursor)
    IN IF i = -1
       THEN locateFrom(blocks, issues, idx + 1, blockCursor,
                       Append(locations, Unlocated),
                       Append(cursorAt, blockCursor))
       ELSE locateFrom(blocks, issues, idx + 1, i,
                       Append(locations, locationIn(blocks[i + 1], issues[idx])),
                       Append(cursorAt, i))

locateIssues(changes, issues) ==
  locateFrom(changeBlocks(changes), issues, 1, 0, <<>>, <<>>)

\* the useMemo of lines 399-460, with the final blockCursor and its history
locateResult(original, res) ==
  IF original = <<>>
  THEN [locations |-> <<>>, blockCursor |-> 0, cursorAt |-> <<>>]
  ELSE locateIssues(diffChars(original, res.correctedText), res.issues)

issueLocations(original, res) == locateResult(original, res).locations

(***************************************************************************)
(* filteredIssues (ResultView.tsx:162-174).  Issue indices are 0-based, as *)
(* in the code; issue i is issues[i + 1].                                  *)
(***************************************************************************)
NoIssue == -1    \* null / undefined where an issue index is expected

\* matchesFilter with a 'style' tab that lets every category through
matchesFilterStyleAll(type, filter) ==
  IF filter = "all" \/ filter = "style" THEN TRUE ELSE type = filter

\* lines 168-172 and 478-484: does an issue of this type pass the filter?
matchesFilter(type, filter) ==
  IF filter = "all" THEN TRUE
  ELSE IF filter = "style" THEN type = "style" \/ type = "suggestion"
  ELSE type = filter

filteredIssues(issues, resolved, filter) ==
  {i \in 0..(Len(issues) - 1) :
     i \notin resolved /\ matchesFilter(issues[i + 1].type, filter)}

(***************************************************************************)
(* processedDiffs (ResultView.tsx:463-609).                                *)
(***************************************************************************)
Max(a, b) == IF a >= b THEN a ELSE b
Min(a, b) == IF a <= b THEN a ELSE b

\* rawDiffs with the two texts handed to diffChars in the other order
rawDiffsReversed(original, current) ==
  IF Len(original) > 0 THEN diffChars(current, original)
  ELSE <<[value |-> current, added |-> TRUE, removed |-> FALSE]>>

\* rawDiffs without the branch for an empty original
rawDiffsUnguarded(original, current) ==
  diffChars(original, current)

\* lines 464-466
rawDiffs(original, current) ==
  IF Len(original) > 0 THEN diffChars(original, current)
  ELSE <<[value |-> current, added |-> TRUE, removed |-> FALSE]>>

\* the target taken from the first issue when nothing is selected
targetOfFirstByDefault(selected, locations) ==
  IF selected # NoIssue /\ selected < Len(locations)
  THEN [defined |-> TRUE, start |-> locations[selected + 1].start,
        end |-> locations[selected + 1].end]
  ELSE IF locations # <<>>
  THEN [defined |-> TRUE, start |-> locations[1].start, end |-> locations[1].end]
  ELSE [defined |-> FALSE, start |-> -1, end |-> -1]

\* line 469: the location of the selected issue; defined is FALSE when
\* nothing is selected or the index has no location.
targetOf(selected, locations) ==
  IF selected # NoIssue /\ selected < Len(locations)
  THEN [defined |-> TRUE, start |-> locations[selected + 1].start,
        end |-> locations[selected + 1].end]
  ELSE [defined |-> FALSE, start |-> -1, end |-> -1]

\* line 468: the suggestion of the selected issue, empty when there is none
selectedSuggestion(selected, issues) ==
  IF selected # NoIssue /\ selected < Len(issues)
  THEN issues[selected + 1].suggestion ELSE <<>>

\* touches without the clamp of a removed chunk's overlap to the end of the
\* location
touchesUnclamped(start, end, isAdded, loc) ==
  IF isAdded THEN start >= loc.start /\ start <= loc.end
  ELSE Max(start, loc.start) < end

\* lines 486-493: does the chunk [start, end) touch the location?
touches(start, end, isAdded, loc) ==
  IF isAdded THEN start >= loc.start /\ start <= loc.end
  ELSE Max(start, loc.start) < Min(end, loc.end)

\* getIssueIndex (lines 472-496): the first issue, in index order, that is
\* unresolved, passes the filter and touches the chunk.
getIssueIndex(start, end, isAdded, locations, issues, resolved, filter) ==
  LET hits == {i \in 0..(Len(locations) - 1) :
                 /\ i \notin resolved
                 /\ matchesFilter(issues[i + 1].type, filter)
                 /\ touches(start, end, isAdded, locations[i + 1])}
  IN IF hits = {} THEN NoIssue
     ELSE CHOOSE i \in hits : \A j \in hits : i <= j

\* a part that keeps the whole text of its change whatever piece it is given
RenderPartWhole(d, value, highlighted, clickable, issueIndex) ==
  [value |-> d.value, added |-> d.added, removed |-> d.removed,
   highlighted |-> highlighted, clickable |-> clickable,
   issueIndex |-> issueIndex]

\* A RenderPart.  A part pushed without clickable / issueIndex (an unchanged
\* part, line 503) reads them as undefined: not clickable, no issue.
RenderPart(d, value, highlighted, clickable, issueIndex) ==
  [value |-> value, added |-> d.added, removed |-> d.removed,
   highlighted |-> highlighted, clickable |-> clickable,
   issueIndex |-> issueIndex]

\* removedParts without the split at the bounds of the target: a removed
\* change that overlaps the target is highlighted as a whole
removedPartsWhole(d, chunkStart, target, selected, locations, issues, resolved, filter) ==
  LET chunkEnd == chunkStart + Len(d.value)
  IN IF /\ target.defined
        /\ Max(chunkStart, target.start) < Min(chunkEnd, target.end)
     THEN <<RenderPart(d, d.value, TRUE, FALSE, selected)>>
     ELSE <<RenderPart(d, d.value, FALSE, TRUE,
                getIssueIndex(chunkStart, chunkEnd, FALSE,
                              locations, issues, resolved, filter))>>

\* lines 508-562: the parts of a removed change that starts at chunkStart
removedParts(d, chunkStart, target, selected, locations, issues, resolved, filter) ==
  LET chunkEnd == chunkStart + Len(d.value)
      overlapStart == IF target.defined THEN Max(chunkStart, target.start) ELSE -1
      overlapEnd == IF target.defined THEN Min(chunkEnd, target.end) ELSE -1
      preLen == overlapStart - chunkStart
      highLen == overlapEnd - overlapStart
  IN IF target.defined /\ overlapStart < overlapEnd
     THEN (IF preLen > 0
           THEN <<RenderPart(d, Substring(d.value, 0, preLen), FALSE, TRUE,
                    getIssueIndex(chunkStart, chunkStart + preLen, FALSE,
                                  locations, issues, resolved, filter))>>
           ELSE <<>>)
          \o <<RenderPart(d, Substring(d.value, preLen, preLen + highLen),
                          TRUE, FALSE, selected)>>
          \o (IF preLen + highLen < Len(d.value)
              THEN <<RenderPart(d, Substring(d.value, preLen + highLen, Len(d.value)),
                       FALSE, TRUE,
                       getIssueIndex(chunkStart + preLen + highLen, chunkEnd, FALSE,
                                     locations, issues, resolved, filter))>>
              ELSE <<>>)
     ELSE <<RenderPart(d, d.value, FALSE, TRUE,
                getIssueIndex(chunkStart, chunkEnd, FALSE,
                              locations, issues, resolved, filter))>>

\* lines 564-603: the parts of an added change anchored at currentOrigIndex
addedParts(d, currentOrigIndex, target, selected, locations, issues, resolved, filter) ==
  LET here == getIssueIndex(currentOrigIndex, currentOrigIndex, TRUE,
                            locations, issues, resolved, filter)
      suggestion == selectedSuggestion(selected, issues)
      idx == IF suggestion # <<>> THEN indexOf(d.value, suggestion) ELSE -1
  IN IF /\ target.defined
        /\ currentOrigIndex >= target.start
        /\ currentOrigIndex <= target.end
     THEN IF idx # -1
          THEN (IF idx > 0
                THEN <<RenderPart(d, Substring(d.value, 0, idx), FALSE, TRUE, here)>>
                ELSE <<>>)
               \o <<RenderPart(d, Substring(d.value, idx, idx + Len(suggestion)),
                               TRUE, FALSE, selected)>>
               \o (IF idx + Len(suggestion) < Len(d.value)
                   THEN <<RenderPart(d, Substring(d.value, idx + Len(suggestion),
                                                  Len(d.value)),
                                     FALSE, TRUE, here)>>
                   ELSE <<>>)
          ELSE <<RenderPart(d, d.value, TRUE, FALSE, selected)>>
     ELSE <<RenderPart(d, d.value, FALSE, TRUE, here)>>

\* the forEach of lines 501-605 from change k on
RECURSIVE partsFrom(_, _, _, _, _, _, _, _, _)
partsFrom(diffs, k, currentOrigIndex, target, selected, locations, issues, resolved, filter) ==
  IF k > Len(diffs) THEN <<>>
  ELSE
    LET d == diffs[k]
    IN IF ~d.added /\ ~d.removed
       THEN <<RenderPart(d, d.value, FALSE, FALSE, NoIssue)>>
            \o partsFrom(diffs, k + 1, currentOrigIndex + Len(d.value), target,
                         selected, locations, issues, resolved, filter)
       ELSE IF d.removed
       THEN removedParts(d, currentOrigIndex, target, selected, locations,
                         issues, resolved, filter)
            \o partsFrom(diffs, k + 1, currentOrigIndex + Len(d.value), target,
                         selected, locations, issues, resolved, filter)
       ELSE addedParts(d, currentOrigIndex, target, selected, locations,
                       issues, resolved, filter)
            \o partsFrom(diffs, k + 1, currentOrigIndex, target,
                         selected, locations, issues, resolved, filter)

processedDiffs(original, current, selected, locations, issues, resolved, filter) ==
  partsFrom(rawDiffs(original, current), 1, 0, targetOf(selected, locations),
            selected, locations, issues, resolved, filter)

(***************************************************************************)
(* The answer of the model is JSON text.  JSON.parse is modelled on the    *)
(* texts drawn below: objects, arrays, strings with the escapes \" \\ \/   *)
(* \n \t \r \f, non-negative integers, true, false, null and white space.  *)
(* A parsed value is a record tagged by t; undefined is a value too.       *)
(***************************************************************************)
Quote == "\""
Backslash == "\\"

Undefined == [t |-> "undefined"]
String(v) == [t |-> "string", v |-> v]
Number(v) == [t |-> "number", v |-> v]
Array(v) == [t |-> "array", v |-> v]
Object(v) == [t |-> "object", v |-> v]

\* the character at offset i, "" beyond the ends
charAt(s, i) == IF 0 <= i /\ i < Len(s) THEN s[i + 1] ELSE ""

\* white space, for \s of the regular expressions and for JSON.parse
isSpace(c) == c \in {" ", "\n", "\t", "\r"}

RECURSIVE skipSpaces(_, _)
skipSpaces(s, i) ==
  IF i < Len(s) /\ isSpace(s[i + 1]) THEN skipSpaces(s, i + 1) ELSE i

Digits == <<"0", "1", "2", "3", "4", "5", "6", "7", "8", "9">>

isDigit(c) == \E d \in 1..10 : Digits[d] = c

digitValue(c) == (CHOOSE d \in 1..10 : Digits[d] = c) - 1

\* the run of digits at offset i: its value and the offset after it
RECURSIVE digitsFrom(_, _, _)
digitsFrom(s, i, acc) ==
  IF i < Len(s) /\ isDigit(s[i + 1])
  THEN digitsFrom(s, i + 1, 10 * acc + digitValue(s[i + 1]))
  ELSE [value |-> acc, next |-> i]

ParseError == [ok |-> FALSE, next |-> 0, value |-> Undefined]
Parsed(value, next) == [ok |-> TRUE, next |-> next, value |-> value]

\* the character an escape \c of a JSON string stands for, "" if there is none
escapeOf(c) ==
  IF c = Quote \/ c = Backslash \/ c = "/" THEN c
  ELSE IF c = "n" THEN "\n"
  ELSE IF c = "t" THEN "\t"
  ELSE IF c = "r" THEN "\r"
  ELSE IF c = "f" THEN "\f"
  ELSE ""

\* a JSON string whose opening quote has been read: the body from offset j
RECURSIVE stringBody(_, _, _)
stringBody(s, j, acc) ==
  IF j >= Len(s) THEN ParseError
  ELSE IF s[j + 1] = Quote THEN Parsed(String(acc), j + 1)
  ELSE IF s[j + 1] = Backslash
  THEN IF escapeOf(charAt(s, j + 1)) = "" THEN ParseError
       ELSE stringBody(s, j + 2, Append(acc, escapeOf(charAt(s, j + 1))))
  ELSE IF s[j + 1] \in {"\n", "\t", "\r", "\f"} THEN ParseError
  ELSE stringBody(s, j + 1, Append(acc, s[j + 1]))

Literals ==
  <<[text |-> <<"t", "r", "u", "e">>, value |-> [t |-> "true"]],
    [text |-> <<"f", "a", "l", "s", "e">>, value |-> [t |-> "false"]],
    [text |-> <<"n", "u", "l", "l">>, value |-> [t |-> "null"]]>>

RECURSIVE parseValue(_, _)
RECURSIVE parseMembers(_, _, _)
RECURSIVE parseElements(_, _, _)

\* the JSON value that starts at offset i (white space already skipped)
parseValue(s, i) ==
  LET c == charAt(s, i)
  IN IF c = Quote THEN stringBody(s, i + 1, <<>>)
     ELSE IF c = "{"
     THEN IF charAt(s, skipSpaces(s, i + 1)) = "}"
          THEN Parsed(Object(<<>>), skipSpaces(s, i + 1) + 1)
          ELSE parseMembers(s, skipSpaces(s, i + 1), <<>>)
     ELSE IF c = "["
     THEN IF charAt(s, skipSpaces(s, i + 1)) = "]"
          THEN Parsed(Array(<<>>), skipSpaces(s, i + 1) + 1)
          ELSE parseElements(s, skipSpaces(s, i + 1), <<>>)
     ELSE IF isDigit(c)
     THEN IF c = "0" /\ isDigit(charAt(s, i + 1)) THEN ParseError
          ELSE LET n == digitsFrom(s, i, 0) IN Parsed(Number(n.value), n.next)
     ELSE IF \E l \in 1..Len(Literals) : StartsWithAt(s, Literals[l].text, i)
     THEN LET l == CHOOSE l \in 1..Len(Literals) :
                     StartsWithAt(s, Literals[l].text, i)
          IN Parsed(Literals[l].value, i + Len(Literals[l].text))
     ELSE ParseError

\* the members of an object from offset i on, after those in acc
parseMembers(s, i, acc) ==
  IF charAt(s, i) # Quote THEN ParseError
  ELSE
    LET k == stringBody(s, i + 1, <<>>)
    IN IF ~k.ok \/ charAt(s, skipSpaces(s, k.next)) # ":" THEN ParseError
       ELSE
         LET v == parseValue(s, skipSpaces(s, skipSpaces(s, k.next) + 1))
         IN IF ~v.ok THEN ParseError
            ELSE
              LET n == skipSpaces(s, v.next)
                  members == Append(acc, [key |-> k.value.v, value |-> v.value])
              IN IF charAt(s, n) = "}" THEN Parsed(Object(members), n + 1)
                 ELSE IF charAt(s, n) = ","
                 THEN parseMembers(s, skipSpaces(s, n + 1), members)
                 ELSE ParseError

\* the elements of an array from offset i on, after those in acc
parseElements(s, i, acc) ==
  LET v == parseValue(s, i)
  IN IF ~v.ok THEN ParseError
     ELSE
       LET n == skipSpaces(s, v.next)
           elements == Append(acc, v.value)
       IN IF charAt(s, n) = "]" THEN Parsed(Array(elements), n + 1)
          ELSE IF charAt(s, n) = ","
          THEN parseElements(s, skipSpaces(s, n + 1), elements)
          ELSE ParseError

\* JSON.parse(s): ok is FALSE where JSON.parse throws
JSONparse(s) ==
  LET v == parseValue(s, skipSpaces(s, 0))
  IN IF v.ok /\ skipSpaces(s, v.next) = Len(s) THEN v ELSE ParseError

\* obj.key: the last member of that name, undefined when there is none or
\* obj is not an object
RECURSIVE memberFrom(_, _, _)
memberFrom(members, key, k) ==
  IF k = 0 THEN Undefined
  ELSE IF members[k].key = key THEN members[k].value
  ELSE memberFrom(members, key, k - 1)

getField(obj, key) ==
  IF obj.t = "object" THEN memberFrom(obj.v, key, Len(obj.v)) ELSE Undefined

\* the truthiness of a value
truthy(v) ==
  IF v.t = "string" THEN v.v # <<>>
  ELSE IF v.t = "number" THEN v.v # 0
  ELSE v.t \in {"object", "array", "true"}

\* a || b
orElse(a, b) == IF truthy(a) THEN a ELSE b

(***************************************************************************)
(* parsePartialJson (services/geminiService, part_005:88-151).             *)
(***************************************************************************)
\* the fence of a markdown code block: three backquotes.  A string of this
\* language cannot hold a backquote; it is written ^ in the texts below.
Fence == <<"^", "^", "^">>
FenceOpen == Fence \o <<"j", "s", "o", "n">>

KeyCorrectedText ==
  <<Quote, "c", "o", "r", "r", "e", "c", "t", "e", "d", "T", "e", "x", "t",
    Quote>>
KeyIssues == <<Quote, "i", "s", "s", "u", "e", "s", Quote>>
KeySummary == <<Quote, "s", "u", "m", "m", "a", "r", "y", Quote>>
KeyScore == <<Quote, "s", "c", "o", "r", "e", Quote>>

RECURSIVE dropTrailingSpaces(_)
dropTrailingSpaces(s) ==
  IF Len(s) > 0 /\ isSpace(s[Len(s)])
  THEN dropTrailingSpaces(Substring(s, 0, Len(s) - 1)) ELSE s

\* line 92: a leading fence with the tag json and the white space after it,
\* and a trailing fence with the white space before it, are removed
stripFence(json) ==
  LET opened == IF StartsWithAt(json, FenceOpen, 0)
                THEN Substring(json, skipSpaces(json, Len(FenceOpen)), Len(json))
                ELSE json
  IN IF Len(opened) >= 3 /\ Substring(opened, Len(opened) - 3, Len(opened)) = Fence
     THEN dropTrailingSpaces(Substring(opened, 0, Len(opened) - 3))
     ELSE opened

\* the offset after key \s* : \s* when key stands at offset p, else -1
afterKeyAt(s, key, p) ==
  IF ~StartsWithAt(s, key, p) THEN -1
  ELSE LET c == skipSpaces(s, p + Len(key))
       IN IF charAt(s, c) = ":" THEN skipSpaces(s, c + 1) ELSE -1

\* the leftmost match of key \s* : \s* followed by a character of opens, searched from offset p: the offset of that character, else -1
RECURSIVE matchField(_, _, _, _)
matchField(s, key, opens, p) ==
  IF p + Len(key) > Len(s) THEN -1
  ELSE LET at == afterKeyAt(s, key, p)
       IN IF at # -1 /\ charAt(s, at) \in opens THEN at
          ELSE matchField(s, key, opens, p + 1)

\* the end of the lazy capture of line 96: the offset of the first quote from
\* q on that does not follow a backslash, the end of the text when there is
\* none
RECURSIVE captureEnd(_, _)
captureEnd(s, q) ==
  IF q >= Len(s) THEN Len(s)
  ELSE IF s[q + 1] = Quote /\ charAt(s, q - 1) # Backslash THEN q
  ELSE captureEnd(s, q + 1)

\* the capture group of the regular expression of lines 96 and 144 for key
stringCapture(s, key) ==
  LET open == matchField(s, key, {Quote}, 0)
  IN IF open = -1 THEN [matched |-> FALSE, text |-> <<>>]
     ELSE [matched |-> TRUE,
           text |-> Substring(s, open + 1, captureEnd(s, open + 1))]

\* s.replace with a global pattern that matches the literal p
RECURSIVE replaceAll(_, _, _)
replaceAll(s, p, r) ==
  LET at == indexOf(s, p)
  IN IF at = -1 THEN s
     ELSE Substring(s, 0, at) \o r
          \o replaceAll(Substring(s, at + Len(p), Len(s)), p, r)

\* lines 102-112: drop a lone trailing backslash, then unescape \" \\ \n \t
unescape(rawText) ==
  LET n == Len(rawText)
      text == IF /\ n > 0
                 /\ rawText[n] = Backslash
                 /\ ~(n > 1 /\ rawText[n - 1] = Backslash)
              THEN Substring(rawText, 0, n - 1) ELSE rawText
  IN replaceAll(
       replaceAll(
         replaceAll(
           replaceAll(text, <<Backslash, Quote>>, <<Quote>>),
           <<Backslash, Backslash>>, <<Backslash>>),
         <<Backslash, "n">>, <<"\n">>),
       <<Backslash, "t">>, <<"\t">>)

\* the offset of the first brace from j on, the end when there is none
RECURSIVE braceFrom(_, _)
braceFrom(s, j) ==
  IF j >= Len(s) \/ s[j + 1] \in {"{", "}"} THEN j ELSE braceFrom(s, j + 1)

\* the end of a match of objectRegex (line 124: a brace, one or more
\* characters that are not braces, a closing brace) at offset i, else -1
objectAt(s, i) ==
  IF charAt(s, i) # "{" THEN -1
  ELSE LET e == braceFrom(s, i + 1)
       IN IF e > i + 1 /\ charAt(s, e) = "}" THEN e + 1 ELSE -1

\* the matches of objectRegex listed from the last one to the first
RECURSIVE foundObjectsNewestFirst(_, _)
foundObjectsNewestFirst(s, i) ==
  IF i >= Len(s) THEN <<>>
  ELSE LET e == objectAt(s, i)
       IN IF e # -1
          THEN foundObjectsNewestFirst(s, e) \o <<Substring(s, i, e)>>
          ELSE foundObjectsNewestFirst(s, i + 1)

\* content.match(objectRegex) from offset i on
RECURSIVE foundObjects(_, _)
foundObjects(s, i) ==
  IF i >= Len(s) THEN <<>>
  ELSE LET e == objectAt(s, i)
       IN IF e # -1 THEN <<Substring(s, i, e)>> \o foundObjects(s, e)
          ELSE foundObjects(s, i + 1)

KeyOriginal == <<"o", "r", "i", "g", "i", "n", "a", "l">>
KeySuggestion == <<"s", "u", "g", "g", "e", "s", "t", "i", "o", "n">>
KeyType == <<"t", "y", "p", "e">>

\* lines 131-136: the objects that parse and have a truthy original,
\* suggestion and type
RECURSIVE keptIssues(_, _)
keptIssues(objects, k) ==
  IF k > Len(objects) THEN <<>>
  ELSE LET obj == JSONparse(objects[k])
       IN (IF /\ obj.ok
              /\ truthy(getField(obj.value, KeyOriginal))
              /\ truthy(getField(obj.value, KeySuggestion))
              /\ truthy(getField(obj.value, KeyType))
           THEN <<obj.value>> ELSE <<>>)
          \o keptIssues(objects, k + 1)

\* lines 144-148
scoreCapture(s) ==
  LET at == matchField(s, KeyScore, {Digits[d] : d \in 1..10}, 0)
  IN IF at = -1 THEN Undefined ELSE Number(digitsFrom(s, at, 0).value)

parsePartialJson(json) ==
  LET cleanJson == stripFence(json)
      textMatch == stringCapture(cleanJson, KeyCorrectedText)
      issuesMatch == matchField(cleanJson, KeyIssues, {"["}, 0)
      summaryMatch == stringCapture(cleanJson, KeySummary)
  IN [correctedText |-> IF textMatch.matched
                        THEN String(unescape(textMatch.text)) ELSE Undefined,
      issues |-> IF issuesMatch # -1
                 THEN Array(keptIssues(
                        foundObjects(Substring(cleanJson, issuesMatch + 1,
                                               Len(cleanJson)), 0), 1))
                 ELSE Undefined,
      summary |-> IF summaryMatch.matched
                  THEN String(summaryMatch.text) ELSE Undefined,
      score |-> scoreCapture(cleanJson)]

(***************************************************************************)
(* State.  The result view (ResultView.tsx:88-127) and what App feeds it   *)
(* (handleCheck): originalText and result are the props, the rest is the   *)
(* component's own state.  finalResult and sites describe the check being  *)
(* served: the complete answer of the model and, for its issue i, where in *)
(* originalText the issue's original snippet sits; no handler reads sites. *)
(* located holds the output of the locator in SpecLocate.                  *)
(***************************************************************************)
VARIABLES originalText, result, finalResult, sites, loadingState,
          currentText, resolvedIndices, issueStatus,
          selectedIssueIndex, selectionSource, activeFilter,
          located, changes,
          provider, response, sent, lost, fullText, partial, update,
          outcome, rawResult,
          whitelist,
          hoveredIssue,
          isAutoScrolling, releaseTimers, listTimers, effectDeps,
          sinceLastRun, timers, timeout, unserved

\* the result view
viewVars == <<originalText, result, finalResult, sites, loadingState,
              currentText, resolvedIndices, issueStatus,
              selectedIssueIndex, selectionSource, activeFilter>>

\* one run of checkChineseText: the provider, the text the model answers
\* with, how much of it has been received (sent) and in how many lost lines,
\* the text accumulated, the last tolerant parse, the last result handed to
\* onUpdate, and how the call ended
streamVars == <<provider, response, sent, lost, fullText, partial, update,
                outcome, rawResult>>

\* the App component's state the view reaches through its props: the words
\* of the user's whitelist (part_005 line 1351)
appVars == <<whitelist>>

\* the issue whose hover card is shown (ResultView.tsx line 106; the card's
\* coordinates are left out)
hoverVars == <<hoveredIssue>>

\* the scroll synchronisation of the two panes: the isAutoScrolling ref (line
\* 111), the number of pending 800 ms timers that clear it, the pending
\* 100 ms callbacks of the list effect, each with what its closure holds, and
\* the dependencies the scroll effects last ran for (React keeps them to
\* decide whether an effect runs after a render)
syncVars == <<isAutoScrolling, releaseTimers, listTimers, effectDeps>>

\* the two throttled scroll handlers (useThrottle, lines 69-86, as used at
\* lines 178 and 208), each with its own refs.  For each handler:
\* sinceLastRun is Date.now() - lastRun.current, kept up to delay, beyond
\* which the code does not tell values apart; timers holds the time left of
\* every pending setTimeout callback, in the order they were set; timeout is
\* what timeout.current refers to: nothing ("null"), the callback set last
\* while it is pending ("pending"), or one that has run ("fired"); unserved
\* tells that the handler was called and func has not run since.
throttleVars == <<sinceLastRun, timers, timeout, unserved>>

vars == <<viewVars, located, changes, streamVars, appVars, hoverVars, syncVars, throttleVars>>

Handlers == {"text", "list"}

\* the delay of both handlers (lines 206 and 235), in ms
Delay == 200

\* the grain of time, in ms
Step == 100

\* no handler has been called: lastRun.current = 0 (line 70), long ago, and
\* timeout.current = null (line 71)
ThrottleIdle ==
  /\ sinceLastRun = [h \in Handlers |-> Delay]
  /\ timers = [h \in Handlers |-> <<>>]
  /\ timeout = [h \in Handlers |-> "null"]
  /\ unserved = [h \in Handlers |-> FALSE]

\* no issue is hovered and no scroll effect has run or is scheduled
SyncIdle ==
  /\ hoveredIssue = NoIssue
  /\ isAutoScrolling = FALSE
  /\ releaseTimers = 0
  /\ listTimers = <<>>
  /\ effectDeps = <<NoIssue, "null">>

NotLocated == [done |-> FALSE, locations |-> <<>>, blockCursor |-> 0,
               cursorAt |-> <<>>]

\* what parsePartialJson returns when it finds nothing
Nothing == [correctedText |-> Undefined, issues |-> Undefined,
            summary |-> Undefined, score |-> Undefined]

\* no call of checkChineseText is under way
NoStream ==
  /\ provider = "none"
  /\ response = <<>>
  /\ sent = 0
  /\ lost = 0
  /\ fullText = <<>>
  /\ partial = Nothing
  /\ update = Nothing
  /\ outcome = "idle"
  /\ rawResult = Nothing

NoStatus == [i \in {} |-> "pending"]

ListsUpTo(S, n) == UNION {[1..k -> S] : k \in 0..n}

IssueTypes == {"typo", "suggestion"}
Filters == {"all", "typo", "style"}

(***************************************************************************)
(* The checks served to the view.  A check is an original text and up to   *)
(* two edits of it, in document order and not overlapping: edit i replaces *)
(* the piece of original at sites[i] by the issue's suggestion, and the    *)
(* corrected text is original with every edit applied.                     *)
(***************************************************************************)
\* original with the edits whose index is in S applied (last edit first, so
\* that the offsets of the earlier ones stay valid)
RECURSIVE applyEdits(_, _, _, _, _)
applyEdits(text, issues, where, S, k) ==
  IF k = 0 THEN text
  ELSE applyEdits(
         IF (k - 1) \in S
         THEN Substring(text, 0, where[k].pos)
              \o issues[k].suggestion
              \o Substring(text, where[k].pos + where[k].len, Len(text))
         ELSE text,
         issues, where, S, k - 1)

Edited(original, issues, where, S) ==
  applyEdits(original, issues, where, S, Len(issues))

Sites(original) ==
  {[pos |-> p, len |-> n] : p \in 0..Len(original), n \in 0..1}

SiteLists(original) ==
  {w \in ListsUpTo({x \in Sites(original) : x.pos + x.len <= Len(original)}, 2) :
     \A i \in 1..Len(w) : \A j \in 1..Len(w) :
       i < j => /\ w[i].pos + w[i].len <= w[j].pos
                /\ w[i].pos < w[j].pos}

Checks(original) ==
  {[sites |-> w, issues |-> iss] :
     w \in SiteLists(original),
     iss \in ListsUpTo({Issue(o, sg, t) : o \in SeqsUpTo(Chars, 1),
                                          sg \in SeqsUpTo(Chars, 1),
                                          t \in IssueTypes}, 2)}

IsCheck(original, c) ==
  /\ Len(c.issues) = Len(c.sites)
  /\ \A i \in 1..Len(c.issues) :
       /\ c.issues[i].original =
            Substring(original, c.sites[i].pos, c.sites[i].pos + c.sites[i].len)
       /\ c.issues[i].suggestion # c.issues[i].original

\* the result streamed so far: the corrected text and the first k issues
partialResult(final, k) ==
  ProofreadResult(final.correctedText, SubSeq(final.issues, 1, k))

(***************************************************************************)
(* Init: handleCheck has received the first streamed update and the view   *)
(* is mounted on it (loadingState 'streaming'); the mount effects have run.*)
(* The code only compares characters for equality, so the original text is *)
(* taken to start with "a".                                                *)
(***************************************************************************)
Init ==
  /\ originalText \in {t \in SeqsUpTo(Chars, MaxDoc) : t # <<>> /\ t[1] = "a"}
  /\ \E c \in Checks(originalText) :
       /\ IsCheck(originalText, c)
       /\ sites = c.sites
       /\ finalResult = ProofreadResult(
            Edited(originalText, c.issues, c.sites, 0..(Len(c.issues) - 1)),
            c.issues)
  /\ result = partialResult(finalResult, 0)
  /\ loadingState = "streaming"
  /\ currentText = result.correctedText
  /\ resolvedIndices = {}
  /\ issueStatus = NoStatus
  /\ selectedIssueIndex = NoIssue
  /\ selectionSource = "null"
  /\ activeFilter = "all"
  /\ located = NotLocated
  /\ whitelist = <<>>
  /\ SyncIdle
  /\ ThrottleIdle
  /\ changes = <<>>
  /\ NoStream

(***************************************************************************)
(* Derived values of the view (the useMemo hooks).                         *)
(***************************************************************************)
visibleIssues == filteredIssues(result.issues, resolvedIndices, activeFilter)

viewLocations == issueLocations(originalText, result)

viewParts ==
  processedDiffs(originalText, currentText, selectedIssueIndex, viewLocations,
                 result.issues, resolvedIndices, activeFilter)

(***************************************************************************)
(* Handlers.  React runs the effects a state change triggers right after   *)
(* the render that follows it and before the next event is handled, so an  *)
(* effect is part of the step that triggers it.                            *)
(***************************************************************************)
\* statusOf with 'ignored' as the disposition an accept leaves
statusOfIgnored(action) ==
  IF action = "whitelist" THEN "whitelisted" ELSE "ignored"

\* line 269
statusOf(action) ==
  IF action = "accept" THEN "accepted"
  ELSE IF action = "whitelist" THEN "whitelisted" ELSE "ignored"

withStatus(status, idx, value) ==
  [i \in DOMAIN status \cup {idx} |-> IF i = idx THEN value ELSE status[i]]

\* revertedText on the last occurrence of the suggestion instead of the first
revertedTextLast(text, issue) ==
  LET hits == {i \in 0..(Len(text) - Len(issue.suggestion)) :
                 StartsWithAt(text, issue.suggestion, i)}
      at == IF hits = {} THEN -1 ELSE CHOOSE i \in hits : \A j \in hits : i >= j
  IN IF at = -1 THEN text
     ELSE Substring(text, 0, at) \o issue.original
          \o Substring(text, at + Len(issue.suggestion), Len(text))

\* line 273: the text after an ignore / whitelist of the issue
revertedText(text, issue) == replace(text, issue.suggestion, issue.original)

\* App's handleAddToWhitelist (part_005 lines 1497-1503), the function the
\* view receives as onAddToWhitelist
handleAddToWhitelist(list, word) ==
  IF \E k \in 1..Len(list) : list[k] = word THEN list ELSE Append(list, word)

\* notifies for every action that reverts the text
notifiesOnRevert(action) == action = "whitelist" \/ action = "ignore"

\* line 274: the actions that call onAddToWhitelist
notifies(action) == action = "whitelist"

\* handleAction (lines 260-278), called from the card of a visible issue
HandleAction(index, action) ==
  /\ index \in visibleIssues
  /\ resolvedIndices' = resolvedIndices \cup {index}
  /\ issueStatus' = withStatus(issueStatus, index, statusOf(action))
  /\ currentText' = IF action = "ignore" \/ action = "whitelist"
                    THEN revertedText(currentText, result.issues[index + 1])
                    ELSE currentText
  /\ whitelist' = IF notifies(action)
                  THEN handleAddToWhitelist(whitelist,
                                            result.issues[index + 1].original)
                  ELSE whitelist
  /\ UNCHANGED <<originalText, result, finalResult, sites, loadingState,
                 selectedIssueIndex, selectionSource, activeFilter,
                 located, changes, streamVars,
                 hoverVars, syncVars, throttleVars>>

\* the forEach of lines 289-297 over the targets from index idx on
RECURSIVE batchFrom(_, _, _, _, _, _)
batchFrom(issues, targets, action, idx, status, text) ==
  IF idx >= Len(issues) THEN [status |-> status, text |-> text]
  ELSE IF idx \notin targets
  THEN batchFrom(issues, targets, action, idx + 1, status, text)
  ELSE batchFrom(issues, targets, action, idx + 1,
                 withStatus(status, idx,
                            IF action = "accept" THEN "accepted" ELSE "ignored"),
                 IF action = "ignore"
                 THEN replace(text, issues[idx + 1].suggestion,
                              issues[idx + 1].original)
                 ELSE text)

\* handleBatchAction (lines 280-302)
HandleBatchAction(action) ==
  /\ visibleIssues # {}
  /\ LET r == batchFrom(result.issues, visibleIssues, action, 0,
                        issueStatus, currentText)
     IN /\ resolvedIndices' = resolvedIndices \cup visibleIssues
        /\ issueStatus' = r.status
        /\ currentText' = r.text
  /\ UNCHANGED <<originalText, result, finalResult, sites, loadingState,
                 selectedIssueIndex, selectionSource, activeFilter,
                 located, changes, streamVars, appVars,
                 hoverVars, syncVars, throttleVars>>

\* the onClick of an issue card (lines 1047-1050)
ClickCard(index) ==
  /\ index \in visibleIssues
  /\ selectionSource' = "list"
  /\ selectedIssueIndex' = IF selectedIssueIndex = index THEN NoIssue ELSE index
  /\ UNCHANGED <<originalText, result, finalResult, sites, loadingState,
                 currentText, resolvedIndices, issueStatus, activeFilter,
                 located, changes, streamVars, appVars,
                 hoverVars, syncVars, throttleVars>>

\* the onClick of a rendered part that carries issue index (lines 645-649
\* and 696-701, annotated view)
partIssues ==
  LET parts == viewParts
  IN {parts[k].issueIndex : k \in 1..Len(parts)} \ {NoIssue}

ClickPart(index) ==
  /\ index < Len(result.issues)     \* parts carry indices of result.issues
  /\ index \in partIssues
  /\ selectionSource' = "text"
  /\ selectedIssueIndex' = index
  /\ UNCHANGED <<originalText, result, finalResult, sites, loadingState,
                 currentText, resolvedIndices, issueStatus, activeFilter,
                 located, changes, streamVars, appVars,
                 hoverVars, syncVars, throttleVars>>

\* a filter tab (setActiveFilter) and the effect on [activeFilter] that the
\* change triggers (lines 125-127)
SetFilter(filter) ==
  /\ filter # activeFilter
  /\ activeFilter' = filter
  /\ selectedIssueIndex' = NoIssue
  /\ UNCHANGED <<originalText, result, finalResult, sites, loadingState,
                 currentText, resolvedIndices, issueStatus, selectionSource,
                 located, changes, streamVars, appVars,
                 hoverVars, syncVars, throttleVars>>

\* setResult(next) and the effect on [result, originalText] that the new
\* result object triggers (lines 114-123)
setResult(next) ==
  /\ result' = next
  /\ resolvedIndices' = {}
  /\ issueStatus' = NoStatus
  /\ currentText' = next.correctedText
  /\ selectedIssueIndex' = NoIssue
  /\ selectionSource' = "null"

\* handleCheck's onUpdate callback: the next streamed partial result
OnUpdate ==
  /\ loadingState = "streaming"
  /\ Len(result.issues) < Len(finalResult.issues)
  /\ setResult(partialResult(finalResult, Len(result.issues) + 1))
  /\ UNCHANGED <<originalText, finalResult, sites, loadingState, activeFilter,
                 located, changes, streamVars, appVars,
                 hoverVars, syncVars, throttleVars>>

\* handleCheck after checkChineseText returns: setResult(data), 'success'
OnComplete ==
  /\ loadingState = "streaming"
  /\ setResult(finalResult)
  /\ loadingState' = "success"
  /\ UNCHANGED <<originalText, finalResult, sites, activeFilter, located, changes, streamVars, appVars,
                 hoverVars, syncVars, throttleVars>>

Actions == {"accept", "ignore", "whitelist"}
BatchActions == {"accept", "ignore"}

Next ==
  \/ \E i \in 0..1, a \in Actions : HandleAction(i, a)
  \/ \E a \in BatchActions : HandleBatchAction(a)
  \/ \E i \in 0..1 : ClickCard(i)
  \/ \E i \in 0..1 : ClickPart(i)
  \/ \E f \in Filters : SetFilter(f)
  \/ OnUpdate
  \/ OnComplete

Spec == Init /\ [][Next]_vars

(***************************************************************************)
(* Scroll synchronisation of the document pane and the issue-card list     *)
(* (ResultView.tsx lines 129-235).  The view mode stays 'annotated', the   *)
(* mode in which marked parts and cards are rendered.  The two scroll      *)
(* effects are callbacks React runs after a render in which their          *)
(* dependencies changed; they are one step, ScrollEffects, which may run   *)
(* later than React would run it.  Timers are steps of their own.          *)
(***************************************************************************)
MaxTimers == 2        \* most 800 ms timers pending at a time
MaxListTimers == 1    \* most 100 ms callbacks of the list effect pending

\* the text effect with the test on the source of the selection left out
textEffectAnySource(index, source) == index # NoIssue

\* line 131: the text effect scrolls for a selection that is not from the text
textEffectApplies(index, source) == index # NoIssue /\ source # "text"

\* line 143: the list effect scrolls for a selection made from the text
listEffectApplies(index, source) == index # NoIssue /\ source = "text"

\* line 132: is there an element with data-issue-id = index in the text pane?
\* (the parts that carry the index, lines 643 and 695)
textElementOf(index) == index \in partIssues

\* line 149: is there a card with id issue-card-index?  (cards are rendered
\* for filteredIssues, line 1044)
cardOf(index) == IF index \in visibleIssues THEN index ELSE NoIssue

\* lines 134-136 and 153-155: take the lock, scroll, schedule the release
Scroll ==
  /\ isAutoScrolling' = TRUE
  /\ releaseTimers' = releaseTimers + 1

\* the two effects of lines 130-159, run for the latest render
ScrollEffects ==
  /\ effectDeps # <<selectedIssueIndex, selectionSource>>
  /\ releaseTimers < MaxTimers
  /\ Len(listTimers) < MaxListTimers
  /\ effectDeps' = <<selectedIssueIndex, selectionSource>>
  /\ IF /\ textEffectApplies(selectedIssueIndex, selectionSource)
        /\ textElementOf(selectedIssueIndex)
     THEN Scroll
     ELSE UNCHANGED <<isAutoScrolling, releaseTimers>>
  /\ listTimers' =
       IF listEffectApplies(selectedIssueIndex, selectionSource)
       THEN Append(listTimers, [card |-> cardOf(selectedIssueIndex),
                                source |-> selectionSource])
       ELSE listTimers
  /\ UNCHANGED <<viewVars, located, changes, streamVars, appVars, hoverVars, throttleVars>>

\* the callback of line 151, 100 ms after the list effect: the card it holds
\* is scrolled into view
ListScrollTimer ==
  /\ listTimers # <<>>
  /\ releaseTimers < MaxTimers
  /\ listTimers' = Tail(listTimers)
  /\ IF Head(listTimers).card # NoIssue
     THEN Scroll
     ELSE UNCHANGED <<isAutoScrolling, releaseTimers>>
  /\ UNCHANGED <<viewVars, located, changes, streamVars, appVars, hoverVars, throttleVars,
                 effectDeps>>

\* the same callback when card.scrollIntoView throws: line 155 is not
\* reached and no release is scheduled
ListScrollTimerThrows ==
  /\ listTimers # <<>>
  /\ Head(listTimers).card # NoIssue
  /\ listTimers' = Tail(listTimers)
  /\ isAutoScrolling' = TRUE
  /\ UNCHANGED <<viewVars, located, changes, streamVars, appVars, hoverVars, throttleVars,
                 releaseTimers, effectDeps>>

\* the callbacks of lines 136 and 155, 800 ms after a scroll
ReleaseTimer ==
  /\ releaseTimers > 0
  /\ releaseTimers' = releaseTimers - 1
  /\ isAutoScrolling' = FALSE
  /\ UNCHANGED <<viewVars, located, changes, streamVars, appVars, hoverVars, throttleVars,
                 listTimers, effectDeps>>

\* lines 201-204 and 231-234: the selection a scroll handler makes
selectClosest(closest, source) ==
  IF closest # NoIssue /\ closest # selectedIssueIndex
  THEN /\ selectionSource' = source
       /\ selectedIssueIndex' = closest
  ELSE UNCHANGED <<selectedIssueIndex, selectionSource>>

\* handleTextScroll (lines 178-206) for a scroll of the text pane that leaves
\* the marked part of issue closest nearest to the centre (NoIssue: no marked
\* part of a visible issue is in view)
HandleTextScroll(closest) ==
  /\ ~isAutoScrolling
  /\ closest = NoIssue \/ (closest \in visibleIssues /\ textElementOf(closest))
  /\ hoveredIssue' = NoIssue
  /\ selectClosest(closest, "text")
  /\ UNCHANGED <<originalText, result, finalResult, sites, loadingState,
                 currentText, resolvedIndices, issueStatus, activeFilter,
                 located, changes, streamVars, appVars, syncVars, throttleVars>>

\* handleListScroll (lines 208-235) for a scroll of the list that leaves the
\* card of issue closest nearest to the centre
HandleListScroll(closest) ==
  /\ ~isAutoScrolling
  /\ closest = NoIssue \/ closest \in visibleIssues
  /\ selectClosest(closest, "list")
  /\ UNCHANGED <<originalText, result, finalResult, sites, loadingState,
                 currentText, resolvedIndices, issueStatus, activeFilter,
                 located, changes, streamVars, appVars, hoverVars, syncVars, throttleVars>>

\* the checks of "ab" the panes are synchronised on: two deletions, and a
\* replacement followed by an insertion, of different categories
SyncChecks ==
  {[sites |-> <<[pos |-> 0, len |-> 1], [pos |-> 1, len |-> 1]>>,
    issues |-> <<Issue(<<"a">>, <<>>, "typo"),
                 Issue(<<"b">>, <<>>, "suggestion")>>],
   [sites |-> <<[pos |-> 0, len |-> 1], [pos |-> 2, len |-> 0]>>,
    issues |-> <<Issue(<<"a">>, <<"b">>, "typo"),
                 Issue(<<>>, <<"a">>, "suggestion")>>]}

\* the view shows the final result of one of these checks
InitSync ==
  /\ originalText = <<"a", "b">>
  /\ \E c \in SyncChecks :
       /\ IsCheck(originalText, c)
       /\ sites = c.sites
       /\ finalResult = ProofreadResult(
            Edited(originalText, c.issues, c.sites, 0..(Len(c.issues) - 1)),
            c.issues)
  /\ result = finalResult
  /\ loadingState = "success"
  /\ currentText = result.correctedText
  /\ resolvedIndices = {}
  /\ issueStatus = NoStatus
  /\ selectedIssueIndex = NoIssue
  /\ selectionSource = "null"
  /\ activeFilter = "all"
  /\ located = NotLocated
  /\ changes = <<>>
  /\ NoStream
  /\ whitelist = <<>>
  /\ SyncIdle
  /\ ThrottleIdle

NextSync ==
  \/ \E i \in 0..1 : ClickCard(i)
  \/ \E i \in 0..1 : ClickPart(i)
  \/ \E f \in Filters : SetFilter(f)
  \/ \E i \in 0..1 : HandleAction(i, "accept")
  \/ \E c \in -1..1 : HandleTextScroll(c)
  \/ \E c \in -1..1 : HandleListScroll(c)
  \/ ScrollEffects
  \/ ListScrollTimer
  \/ ListScrollTimerThrows
  \/ ReleaseTimer

\* a timer that is due fires: the 100 ms callback runs (and returns or
\* throws) and the 800 ms callback runs
SpecSync ==
  /\ InitSync
  /\ [][NextSync]_vars
  /\ WF_vars(ListScrollTimer \/ ListScrollTimerThrows)
  /\ WF_vars(ReleaseTimer)

(***************************************************************************)
(* The locator alone, on any original, corrected text and issue list.  A   *)
(* snippet that occurs nowhere in its text matches no block, exactly as    *)
(* the empty snippet does, so the snippets drawn are the short pieces of   *)
(* the two texts (the empty one among them).                               *)
(***************************************************************************)
Pieces(text) ==
  {Substring(text, i, j) : i \in 0..Len(text), j \in 0..Len(text)}

ShortPieces(text) == {p \in Pieces(text) : Len(p) <= 2}

\* the issue lists drawn: none, one or two issues
IssueLists(S) == ListsUpTo(S, 2)

InitLocate ==
  /\ originalText \in SeqsUpTo(Chars, MaxLen)
  /\ \E correctedText \in SeqsUpTo(Chars, MaxLen) :
       \E issues \in IssueLists(
            {Issue(o, s, "typo") : o \in ShortPieces(originalText),
                                   s \in ShortPieces(correctedText)}) :
         result = ProofreadResult(correctedText, issues)
  /\ finalResult = result
  /\ sites = <<>>
  /\ loadingState = "success"
  /\ currentText = result.correctedText
  /\ resolvedIndices = {}
  /\ issueStatus = NoStatus
  /\ selectedIssueIndex = NoIssue
  /\ selectionSource = "null"
  /\ activeFilter = "all"
  /\ located = NotLocated
  /\ whitelist = <<>>
  /\ SyncIdle
  /\ ThrottleIdle
  /\ changes = <<>>
  /\ NoStream

\* Run the locator on the drawn inputs.
Locate ==
  /\ ~located.done
  /\ located' =
       LET r == locateResult(originalText, result)
       IN [done |-> TRUE, locations |-> r.locations,
           blockCursor |-> r.blockCursor, cursorAt |-> r.cursorAt]
  /\ UNCHANGED <<originalText, result, finalResult, sites, loadingState,
                 currentText, resolvedIndices, issueStatus,
                 selectedIssueIndex, selectionSource, activeFilter,
                 changes, streamVars, appVars,
                 hoverVars, syncVars, throttleVars>>

NextLocate == Locate

SpecLocate == InitLocate /\ [][NextLocate]_vars

(***************************************************************************)
(* The diff the renderer works on, for any two texts.                      *)
(***************************************************************************)
InitDiff ==
  /\ originalText \in SeqsUpTo(Chars, MaxLen)
  /\ currentText \in SeqsUpTo(Chars, MaxLen)
  /\ result = ProofreadResult(currentText, <<>>)
  /\ finalResult = result
  /\ sites = <<>>
  /\ loadingState = "success"
  /\ resolvedIndices = {}
  /\ issueStatus = NoStatus
  /\ selectedIssueIndex = NoIssue
  /\ selectionSource = "null"
  /\ activeFilter = "all"
  /\ located = NotLocated
  /\ whitelist = <<>>
  /\ SyncIdle
  /\ ThrottleIdle
  /\ changes = <<>>
  /\ NoStream

\* lines 464-466 of processedDiffs: the changes the parts are made from
Diff ==
  /\ changes = <<>>
  /\ changes' = rawDiffs(originalText, currentText)
  /\ UNCHANGED <<viewVars, located, streamVars, appVars,
                 hoverVars, syncVars, throttleVars>>

NextDiff == Diff

SpecDiff == InitDiff /\ [][NextDiff]_vars

(***************************************************************************)
(* checkChineseText (part_005:296-529) from the first chunk of the answer  *)
(* to its return, on the Gemini path (lines 467-489) and on the            *)
(* OpenAI-compatible path (callOpenAICompatibleStream, lines 235-291).     *)
(* The check is run with the empty whitelist, for which postProcessResult  *)
(* (line 158) returns the result it is given.                              *)
(***************************************************************************)
MaxChunk == 2      \* longest chunk / delta of the answer, in characters
MaxLost == 1       \* most lines of the event stream that are split by a read

Str(v) == <<Quote>> \o v \o <<Quote>>

NameCorrectedText ==
  <<"c", "o", "r", "r", "e", "c", "t", "e", "d", "T", "e", "x", "t">>
NameIssues == <<"i", "s", "s", "u", "e", "s">>
NameSummary == <<"s", "u", "m", "m", "a", "r", "y">>
NameScore == <<"s", "c", "o", "r", "e">>

Member(name, valueText) == Str(name) \o <<":">> \o valueText

IssueText(original, suggestion, typeText) ==
  <<"{">> \o Member(KeyOriginal, Str(original)) \o <<",">>
  \o Member(KeySuggestion, Str(suggestion)) \o <<",">>
  \o Member(KeyType, typeText) \o <<"}">>

\* Scenario B of the specification; the four characters of its corrected
\* text are written x f w c
ScenarioBText == <<"x", "f", "w", "c">>

ScenarioB ==
  <<"{">> \o Member(NameCorrectedText, Str(ScenarioBText)) \o <<",">>
  \o Str(NameIssues) \o <<":", "[", "{", Quote, "o", "r", "i", "g">>

\* a complete record with one issue
Complete ==
  <<"{">> \o Member(NameCorrectedText, Str(<<"a", "b">>)) \o <<",">>
  \o Member(NameIssues,
            <<"[">> \o IssueText(<<"a">>, <<"b">>, Str(<<"t", "y", "p", "o">>))
            \o <<"]">>) \o <<",">>
  \o Member(NameScore, <<"9">>) \o <<"}">>

Plain ==
  <<"{">> \o Member(NameCorrectedText, Str(<<"a">>)) \o <<",">>
  \o Member(NameIssues, <<"[", "]">>) \o <<"}">>

\* a record inside a markdown code block
Fenced == FenceOpen \o <<"\n">> \o Plain \o <<"\n">> \o Fence

\* a record after some words of the model
Prefaced == <<"o", "k", " ">> \o Plain

\* a corrected text with an escaped quote, and a summary
Escaped ==
  <<"{">> \o Member(NameCorrectedText, Str(<<"a", Backslash, Quote, "b">>))
  \o <<",">> \o Member(NameSummary, Str(<<"s">>)) \o <<"}">>

\* a record without corrected text, whose issue has an empty suggestion
NoText ==
  <<"{">> \o Member(NameIssues,
                    <<"[">> \o IssueText(<<"a">>, <<>>, <<"1">>) \o <<"]">>)
  \o <<"}">>

Responses == {ScenarioB, Complete, Fenced, Prefaced, Escaped, NoText}

InitStream ==
  /\ originalText = <<>>
  /\ result = ProofreadResult(<<>>, <<>>)
  /\ finalResult = result
  /\ sites = <<>>
  /\ loadingState = "loading"
  /\ currentText = <<>>
  /\ resolvedIndices = {}
  /\ issueStatus = NoStatus
  /\ selectedIssueIndex = NoIssue
  /\ selectionSource = "null"
  /\ activeFilter = "all"
  /\ located = NotLocated
  /\ whitelist = <<>>
  /\ SyncIdle
  /\ ThrottleIdle
  /\ changes = <<>>
  /\ provider \in {"gemini", "openai"}
  /\ response \in Responses
  /\ sent = 0
  /\ lost = 0
  /\ fullText = <<>>
  /\ partial = Nothing
  /\ update = Nothing
  /\ outcome = "streaming"
  /\ rawResult = Nothing

\* the literals of lines 263 and 286
SummaryAnalysing == String(<<"analysing">>)
SummaryRecovered == String(<<"recovered, some data may be lost">>)

\* Gemini path, lines 468-479: one chunk of the stream
ReceiveGemini(k) ==
  /\ provider = "gemini"
  /\ outcome = "streaming"
  /\ sent + k <= Len(response)
  /\ sent' = sent + k
  /\ fullText' = fullText \o Substring(response, sent, sent + k)
  /\ partial' = parsePartialJson(fullText')
  /\ update' = IF truthy(partial'.correctedText) THEN partial' ELSE update
  /\ UNCHANGED <<viewVars, located, changes, provider, response, lost,
                 outcome, rawResult, appVars,
                 hoverVars, syncVars, throttleVars>>

\* OpenAI-compatible path, lines 244-272: one 'data: ' line of the event
\* stream, which carries the next delta of the answer.  A line that arrives
\* whole is parsed and its content appended; a line that a read splits in
\* two is dropped, its first half by the catch of line 269 and its second
\* half by the test of line 249.
ReceiveOpenAI(k, whole) ==
  /\ provider = "openai"
  /\ outcome = "streaming"
  /\ sent + k <= Len(response)
  /\ sent' = sent + k
  /\ IF whole
     THEN /\ fullText' = fullText \o Substring(response, sent, sent + k)
          /\ partial' = parsePartialJson(fullText')
          /\ update' =
               IF truthy(partial'.correctedText)
               THEN [correctedText |-> partial'.correctedText,
                     issues |-> orElse(partial'.issues, Array(<<>>)),
                     summary |-> orElse(partial'.summary, SummaryAnalysing),
                     score |-> orElse(partial'.score, Number(0))]
               ELSE update
          /\ lost' = lost
     ELSE /\ lost < MaxLost
          /\ lost' = lost + 1
          /\ UNCHANGED <<fullText, partial, update>>
  /\ UNCHANGED <<viewVars, located, changes, provider, response, outcome,
                 rawResult, appVars,
                 hoverVars, syncVars, throttleVars>>

\* the fields of a ProofreadResult in the value JSON.parse returns
resultOf(value) ==
  [correctedText |-> getField(value, NameCorrectedText),
   issues |-> getField(value, NameIssues),
   summary |-> getField(value, NameSummary),
   score |-> getField(value, NameScore)]

lastIndexOf(s, p) ==
  LET hits == {i \in 0..(Len(s) - Len(p)) : StartsWithAt(s, p, i)}
  IN IF hits = {} THEN -1 ELSE CHOOSE i \in hits : \A j \in hits : i >= j

\* lines 482-487: cut the text down to its outermost braces
trimToBraces(cleanJson) ==
  LET firstBrace == indexOf(cleanJson, <<"{">>)
      lastBrace == lastIndexOf(cleanJson, <<"}">>)
  IN IF firstBrace # -1 /\ lastBrace # -1 /\ lastBrace > firstBrace
     THEN Substring(cleanJson, firstBrace, lastBrace + 1)
     ELSE cleanJson

\* Gemini path, lines 481-493: the stream has ended; the strict parse is
\* the only parse, and its error is thrown on
CompleteGemini ==
  /\ provider = "gemini"
  /\ outcome = "streaming"
  /\ LET parsed == JSONparse(trimToBraces(stripFence(fullText)))
     IN /\ outcome' = IF parsed.ok THEN "returned" ELSE "threw"
        /\ rawResult' = IF parsed.ok THEN resultOf(parsed.value) ELSE Nothing
  /\ UNCHANGED <<viewVars, located, changes, provider, response, sent, lost,
                 fullText, partial, update, appVars,
                 hoverVars, syncVars, throttleVars>>

\* OpenAI-compatible path, lines 276-291: the stream has ended; when the
\* strict parse throws, the tolerant parse is returned if it has a corrected
\* text
CompleteOpenAI ==
  /\ provider = "openai"
  /\ outcome = "streaming"
  /\ LET parsed == JSONparse(stripFence(fullText))
         recovered == parsePartialJson(fullText)
     IN /\ outcome' =
             IF parsed.ok \/ truthy(recovered.correctedText)
             THEN "returned" ELSE "threw"
        /\ rawResult' =
             IF parsed.ok THEN resultOf(parsed.value)
             ELSE IF truthy(recovered.correctedText)
             THEN [correctedText |-> recovered.correctedText,
                   issues |-> orElse(recovered.issues, Array(<<>>)),
                   summary |-> orElse(recovered.summary, SummaryRecovered),
                   score |-> orElse(recovered.score, Number(80))]
             ELSE Nothing
  /\ UNCHANGED <<viewVars, located, changes, provider, response, sent, lost,
                 fullText, partial, update, appVars,
                 hoverVars, syncVars, throttleVars>>

NextStream ==
  \/ \E k \in 1..MaxChunk : ReceiveGemini(k)
  \/ \E k \in 1..MaxChunk : \E whole \in BOOLEAN : ReceiveOpenAI(k, whole)
  \/ CompleteGemini
  \/ CompleteOpenAI

SpecStream == InitStream /\ [][NextStream]_vars

(***************************************************************************)
(* parsePartialJson on its own: the function is applied to every prefix of *)
(* a family of answers, records whose corrected text is built from plain   *)
(* characters and escapes and records whose issues array holds up to       *)
(* MaxObjects objects.                                                     *)
(***************************************************************************)
MaxTokens == 2     \* most characters / escapes in a corrected text
MaxObjects == 2    \* most objects in an issues array

\* what a corrected text is written with: plain characters and the escapes
\* of a quote, a backslash, a line feed and a tab
Tokens ==
  {<<"a">>, <<"n">>, <<Backslash, Quote>>, <<Backslash, Backslash>>,
   <<Backslash, "n">>, <<Backslash, "t">>}

RECURSIVE TokenTexts(_)
TokenTexts(n) ==
  IF n = 0 THEN {<<>>}
  ELSE LET shorter == TokenTexts(n - 1)
       IN shorter \cup {b \o t : b \in shorter, t \in Tokens}

TextRecord(body) ==
  <<"{">> \o Member(NameCorrectedText, Str(body)) \o <<",">>
  \o Member(NameIssues, <<"[", "]">>) \o <<"}">>

TypoType == <<"t", "y", "p", "o">>
UnknownType == <<"f", "o", "o">>

\* issue objects: with a plain or a brace-holding original, and with a
\* suggestion and a recognised category, an empty suggestion, or a category
\* that is not one of IssueType
IssueObjects ==
  {IssueText(o, x.suggestion, Str(x.type)) :
     o \in {<<"a">>, <<"}">>},
     x \in {[suggestion |-> <<"b">>, type |-> TypoType],
            [suggestion |-> <<>>, type |-> TypoType],
            [suggestion |-> <<"b">>, type |-> UnknownType]}}

RECURSIVE joined(_)
joined(objects) ==
  IF objects = <<>> THEN <<>>
  ELSE IF Len(objects) = 1 THEN objects[1]
  ELSE objects[1] \o <<",">> \o joined(Tail(objects))

IssuesRecord(objects) ==
  <<"{">> \o Member(NameIssues, <<"[">> \o joined(objects) \o <<"]">>)
  \o <<"}">>

\* answers with a corrected text, answers with an issues array, and the
\* latter inside a markdown code block
ParseTexts ==
  {TextRecord(b) : b \in TokenTexts(MaxTokens)}
  \cup {IssuesRecord(objects) : objects \in ListsUpTo(IssueObjects, MaxObjects)}
  \cup {FenceOpen \o <<"\n">> \o IssuesRecord(<<o>>) \o <<"\n">> \o Fence :
          o \in IssueObjects}

\* a prefix of one of the answers has been accumulated
InitParse ==
  /\ originalText = <<>>
  /\ result = ProofreadResult(<<>>, <<>>)
  /\ finalResult = result
  /\ sites = <<>>
  /\ loadingState = "loading"
  /\ currentText = <<>>
  /\ resolvedIndices = {}
  /\ issueStatus = NoStatus
  /\ selectedIssueIndex = NoIssue
  /\ selectionSource = "null"
  /\ activeFilter = "all"
  /\ located = NotLocated
  /\ changes = <<>>
  /\ whitelist = <<>>
  /\ SyncIdle
  /\ ThrottleIdle
  /\ provider = "none"
  /\ response \in ParseTexts
  /\ sent \in 0..Len(response)
  /\ lost = 0
  /\ fullText = Substring(response, 0, sent)
  /\ partial = Nothing
  /\ update = Nothing
  /\ outcome = "idle"
  /\ rawResult = Nothing

\* parsePartialJson(fullText), as lines 258 and 474 call it on the accumulated text
ParsePartial ==
  /\ outcome = "idle"
  /\ partial' = parsePartialJson(fullText)
  /\ outcome' = "parsed"
  /\ UNCHANGED <<viewVars, located, changes, provider, response, sent, lost,
                 fullText, update, rawResult, appVars, hoverVars, syncVars, throttleVars>>

NextParse == ParsePartial

SpecParse == InitParse /\ [][NextParse]_vars

(***************************************************************************)
(* The hover card.  The view is mounted on a streamed result; the pointer  *)
(* enters and leaves marked parts, and the result is replaced under it: by *)
(* the next streamed update, by the final result (which postProcessResult  *)
(* has filtered by the whitelist the check started with) or by a record    *)
(* loaded from the history.                                                *)
(***************************************************************************)
\* postProcessResult's filter (part_005 lines 160-180) from issue k on: an
\* issue whose original is a word of the whitelist is dropped, and its
\* suggestion, when the corrected text includes it, is replaced back by the
\* original.  The words drawn here hold no space and no upper-case letter,
\* which is all that trim() and toLowerCase() would change.
RECURSIVE postProcessFrom(_, _, _, _, _)
postProcessFrom(text, issues, list, k, kept) ==
  IF k > Len(issues) THEN ProofreadResult(text, kept)
  ELSE LET issue == issues[k]
           isWhitelisted == \E w \in 1..Len(list) : list[w] = issue.original
       IN IF isWhitelisted
          THEN postProcessFrom(
                 IF indexOf(text, issue.suggestion) # -1
                 THEN replace(text, issue.suggestion, issue.original)
                 ELSE text,
                 issues, list, k + 1, kept)
          ELSE postProcessFrom(text, issues, list, k + 1, Append(kept, issue))

postProcessResult(res, list) ==
  IF list = <<>> THEN res
  ELSE postProcessFrom(res.correctedText, res.issues, list, 1, <<>>)

\* window.innerWidth from which handleMouseEnter shows the card (line 614)
DesktopWidth == 1024
Widths == {DesktopWidth - 1, DesktopWidth}

\* the issue handed to HoverCard (line 905): result.issues[hoveredIssue.index],
\* undefined when the index is not one of the list
hoverCardIssue ==
  IF hoveredIssue < Len(result.issues)
  THEN [defined |-> TRUE, issue |-> result.issues[hoveredIssue + 1]]
  ELSE [defined |-> FALSE, issue |-> Issue(<<>>, <<>>, "undefined")]

\* the render throws: hoveredIssue && result.issues lets the card render, and
\* HoverCard reads issue.type (lines 26-58) of an issue that is undefined
renderThrows == hoveredIssue # NoIssue /\ ~hoverCardIssue.defined

\* handleMouseEnter (lines 612-627) from the onMouseEnter of a part that
\* carries an issue index (lines 650 and 702-706)
MouseEnter(index, innerWidth) ==
  /\ index < Len(result.issues)
  /\ index \in partIssues
  /\ hoveredIssue' = IF innerWidth < DesktopWidth THEN hoveredIssue ELSE index
  /\ UNCHANGED <<viewVars, located, changes, streamVars, appVars, syncVars, throttleVars>>

\* onMouseLeave of a part (lines 651 and 707), onClose of the card (907)
MouseLeave ==
  /\ hoveredIssue # NoIssue
  /\ hoveredIssue' = NoIssue
  /\ UNCHANGED <<viewVars, located, changes, streamVars, appVars, syncVars, throttleVars>>

\* handleCheck after checkChineseText returns (part_005 lines 1662-1663) what
\* postProcessResult made of the answer (line 528) with the whitelist the
\* check was started with
OnCompleteFiltered ==
  /\ loadingState = "streaming"
  /\ setResult(postProcessResult(finalResult, whitelist))
  /\ loadingState' = "success"
  /\ UNCHANGED <<originalText, finalResult, sites, activeFilter, located,
                 changes, streamVars, appVars, hoverVars, syncVars, throttleVars>>

\* the records of the history: earlier checks of "ab"
HistoryRecords ==
  {[originalText |-> <<"a", "b">>,
    sites |-> c.sites,
    resultJson |-> ProofreadResult(
      Edited(<<"a", "b">>, c.issues, c.sites, 0..(Len(c.issues) - 1)),
      c.issues)] :
     c \in SyncChecks \cup
           {[sites |-> <<[pos |-> 0, len |-> 1]>>,
             issues |-> <<Issue(<<"a">>, <<>>, "typo")>>]}}

\* handleLoadHistoryRecord (part_005 lines 1685-1688) once the check is over:
\* the view stays mounted and receives the record's text and result
LoadHistoryRecord(record) ==
  /\ loadingState = "success"
  /\ record.resultJson # result
  /\ originalText' = record.originalText
  /\ sites' = record.sites
  /\ finalResult' = record.resultJson
  /\ setResult(record.resultJson)
  /\ UNCHANGED <<loadingState, activeFilter, located, changes, streamVars,
                 appVars, hoverVars, syncVars, throttleVars>>

\* the whitelists a check is started with
HoverWhitelists == {<<>>, <<<<"a">>>>, <<<<"b">>>>}

\* the first streamed update of a check of "ab" has mounted the view
InitHover ==
  /\ originalText = <<"a", "b">>
  /\ \E c \in SyncChecks :
       /\ IsCheck(originalText, c)
       /\ sites = c.sites
       /\ finalResult = ProofreadResult(
            Edited(originalText, c.issues, c.sites, 0..(Len(c.issues) - 1)),
            c.issues)
  /\ result = partialResult(finalResult, 0)
  /\ loadingState = "streaming"
  /\ currentText = result.correctedText
  /\ resolvedIndices = {}
  /\ issueStatus = NoStatus
  /\ selectedIssueIndex = NoIssue
  /\ selectionSource = "null"
  /\ activeFilter = "all"
  /\ located = NotLocated
  /\ changes = <<>>
  /\ whitelist \in HoverWhitelists
  /\ SyncIdle
  /\ ThrottleIdle
  /\ NoStream

\* what happens to a mounted view; a render that throws unmounts it, so
\* only the first throwing state of a behaviour is meaningful
NextHover ==
  \/ \E i \in 0..1, w \in Widths : MouseEnter(i, w)
  \/ MouseLeave
  \/ \E c \in -1..1 : HandleTextScroll(c)
  \/ \E i \in 0..1 : ClickCard(i)
  \/ \E i \in 0..1 : ClickPart(i)
  \/ \E f \in Filters : SetFilter(f)
  \/ OnUpdate
  \/ OnCompleteFiltered
  \/ \E r \in HistoryRecords : LoadHistoryRecord(r)

SpecHover == InitHover /\ [][NextHover]_vars

(***************************************************************************)
(* useThrottle (ResultView.tsx:69-86) for the two scroll handlers.  Time   *)
(* passes in steps; a scroll event calls the throttled handler; a pending  *)
(* timer callback runs when its time is up, possibly late.  What func does *)
(* (handleTextScroll, handleListScroll) is modelled by HandleTextScroll    *)
(* and HandleListScroll above; here a run of func only serves the calls    *)
(* made so far.                                                            *)
(***************************************************************************)
MaxPending == 2    \* most timer callbacks of one handler pending at a time

\* the else branch without a new timer: the call is dropped
scheduleNothing(pending, ref, since) ==
  [timers |-> IF ref = "pending" THEN SubSeq(pending, 1, Len(pending) - 1)
              ELSE pending,
   timeout |-> IF ref = "pending" THEN "fired" ELSE ref]

\* lines 78-82: clearTimeout of the callback timeout.current refers to, which
\* is the one set last, and a new callback after delay - (now - lastRun)
schedule(pending, ref, since) ==
  [timers |-> Append(IF ref = "pending"
                     THEN SubSeq(pending, 1, Len(pending) - 1)
                     ELSE pending,
                     Delay - since),
   timeout |-> "pending"]

\* a scroll event of pane h: the throttled handler is called (lines 73-83)
ScrollEvent(h) ==
  /\ Len(timers[h]) < MaxPending
  /\ IF sinceLastRun[h] >= Delay
     THEN /\ unserved' = [unserved EXCEPT ![h] = FALSE]
          /\ sinceLastRun' = [sinceLastRun EXCEPT ![h] = 0]
          /\ UNCHANGED <<timers, timeout>>
     ELSE LET next == schedule(timers[h], timeout[h], sinceLastRun[h])
          IN /\ timers' = [timers EXCEPT ![h] = next.timers]
             /\ timeout' = [timeout EXCEPT ![h] = next.timeout]
             /\ unserved' = [unserved EXCEPT ![h] = TRUE]
             /\ UNCHANGED sinceLastRun
  /\ UNCHANGED <<viewVars, located, changes, streamVars, appVars, hoverVars,
                 syncVars>>

\* s without its element at position i
without(s, i) == SubSeq(s, 1, i - 1) \o SubSeq(s, i + 1, Len(s))

\* the callback of lines 79-82, for a timer of handler h whose time is up
TimerFires(h) ==
  /\ \E i \in 1..Len(timers[h]) :
       /\ timers[h][i] = 0
       /\ timers' = [timers EXCEPT ![h] = without(timers[h], i)]
       /\ timeout' = [timeout EXCEPT ![h] =
                        IF i = Len(timers[h]) /\ timeout[h] = "pending"
                        THEN "fired" ELSE timeout[h]]
  /\ unserved' = [unserved EXCEPT ![h] = FALSE]
  /\ sinceLastRun' = [sinceLastRun EXCEPT ![h] = 0]
  /\ UNCHANGED <<viewVars, located, changes, streamVars, appVars, hoverVars,
                 syncVars>>

\* Step ms pass
Tick ==
  /\ sinceLastRun' = [h \in Handlers |-> Min(sinceLastRun[h] + Step, Delay)]
  /\ timers' = [h \in Handlers |->
                  [i \in 1..Len(timers[h]) |-> Max(timers[h][i] - Step, 0)]]
  /\ UNCHANGED <<timeout, unserved>>
  /\ UNCHANGED <<viewVars, located, changes, streamVars, appVars, hoverVars,
                 syncVars>>

\* the view shows a result; only its scroll events are looked at
InitThrottle == InitSync

NextThrottle ==
  \/ \E h \in Handlers : ScrollEvent(h)
  \/ \E h \in Handlers : TimerFires(h)
  \/ Tick

\* time passes, and a timer callback whose time is up runs
SpecThrottle ==
  /\ InitThrottle
  /\ [][NextThrottle]_vars
  /\ WF_vars(Tick)
  /\ \A h \in Handlers : WF_vars(TimerFires(h))

(***************************************************************************)
(* Properties of the locator, checked under SpecLocate.                    *)
(***************************************************************************)
Occurrences(text, p) == {i \in 0..(Len(text) - Len(p)) : StartsWithAt(text, p, i)}

OccursOnce(text, p) == Cardinality(Occurrences(text, p)) = 1

IsLocated(loc) == loc.start # -1

LocatedIssues == {i \in 1..Len(located.locations) : IsLocated(located.locations[i])}

\* the check is consistent for its issue i: the snippet is not empty, the
\* suggestion differs from it and corrected is original with the snippet
\* replaced by the suggestion
IsEditOf(original, corrected, issue) ==
  /\ issue.original # <<>>
  /\ issue.suggestion # issue.original
  /\ corrected = replace(original, issue.original, issue.suggestion)

\* C1: an issue whose suggestion occurs exactly once in corrected and whose
\* original snippet occurs exactly once in original is located at exactly the
\* range [start, end) of that snippet in original (stated for the checks in
\* which corrected is original with the snippet replaced by the suggestion).
C1_RoundTrip ==
  (located.done /\ originalText # <<>>) =>
    \A i \in 1..Len(result.issues) :
      LET issue == result.issues[i]
      IN (/\ OccursOnce(result.correctedText, issue.suggestion)
          /\ OccursOnce(originalText, issue.original)
          /\ IsEditOf(originalText, result.correctedText, issue)) =>
           /\ i <= Len(located.locations)
           /\ located.locations[i] =
                [start |-> indexOf(originalText, issue.original),
                 end |-> indexOf(originalText, issue.original) + Len(issue.original)]

\* C7: the located ranges (start # -1) are pairwise disjoint and ordered by
\* issue index: end_i <= start_j for located issues i < j.
C7_RangesOrdered ==
  located.done =>
    \A i \in LocatedIssues : \A j \in LocatedIssues :
      i < j => located.locations[i].end <= located.locations[j].start

\* C8 (Scenario D): the phrase occurs at two positions of original, corrected
\* changes only the first of them and the single issue quotes it; the issue
\* gets the range of the earlier occurrence and the block cursor stays at a
\* block that does not lie after the later occurrence.
ScenarioD ==
  /\ Len(result.issues) = 1
  /\ Cardinality(Occurrences(originalText, result.issues[1].original)) >= 2
  /\ IsEditOf(originalText, result.correctedText, result.issues[1])

C8_DuplicateEarlier ==
  (located.done /\ ScenarioD) =>
    LET phrase == result.issues[1].original
        first == indexOf(originalText, phrase)
        blocks == changeBlocks(diffChars(originalText, result.correctedText))
    IN /\ located.locations[1] = [start |-> first, end |-> first + Len(phrase)]
       /\ located.blockCursor < Len(blocks)
       /\ blocks[located.blockCursor + 1].origStart < first + Len(phrase)

(***************************************************************************)
(* Properties of the view, checked under Spec.                             *)
(***************************************************************************)
\* the issues of the check whose suggestion has not been reverted
Applied ==
  {i \in 0..(Len(finalResult.issues) - 1) :
     ~(i \in DOMAIN issueStatus /\ issueStatus[i] \in {"ignored", "whitelisted"})}

\* current is original with exactly the unreverted edits applied
Consistent ==
  currentText = Edited(originalText, finalResult.issues, sites, Applied)

\* where the span of issue i starts in current, when current is consistent
RECURSIVE shiftBefore(_, _)
shiftBefore(i, S) ==
  IF i = 0 THEN 0
  ELSE shiftBefore(i - 1, S)
       + (IF (i - 1) \in S
          THEN Len(finalResult.issues[i].suggestion) - sites[i].len
          ELSE 0)

spanStart(i) == sites[i + 1].pos + shiftBefore(i, Applied)

C3_DispositionTerminal ==
  [][\A i \in resolvedIndices :
       /\ i \in resolvedIndices'
       /\ i \in DOMAIN issueStatus'
       /\ issueStatus'[i] = issueStatus[i]]_vars

\* the offset in original at which part k of parts starts (a removed or an
\* unchanged part covers [start, start + length), an added part is anchored
\* at start)
RECURSIVE partStart(_, _)
partStart(parts, k) ==
  IF k = 1 THEN 0
  ELSE partStart(parts, k - 1)
       + (IF parts[k - 1].added THEN 0 ELSE Len(parts[k - 1].value))

partEnd(parts, k) ==
  partStart(parts, k) + (IF parts[k].added THEN 0 ELSE Len(parts[k].value))

\* part k lies over the range loc of original
isOver(parts, k, loc) ==
  IF parts[k].added
  THEN loc.start <= partStart(parts, k) /\ partStart(parts, k) <= loc.end
  ELSE Max(partStart(parts, k), loc.start) < Min(partEnd(parts, k), loc.end)

\* Scenario E: issues shown and other are located and unresolved, of
\* different categories, and the filter is the category of shown
ScenarioE(shown, other) ==
  /\ shown # other
  /\ {shown, other} \cap resolvedIndices = {}
  /\ IsLocated(viewLocations[shown + 1])
  /\ IsLocated(viewLocations[other + 1])
  /\ result.issues[shown + 1].type # result.issues[other + 1].type
  /\ activeFilter # "all"
  /\ matchesFilter(result.issues[shown + 1].type, activeFilter)
  /\ ~matchesFilter(result.issues[other + 1].type, activeFilter)

\* C9 (Scenario E): under a category filter, every part rendered over the
\* span of a located, unresolved issue of another category is not clickable
\* and carries no issue index.
C9_FilteredSpanInert ==
  \A shown \in 0..(Len(result.issues) - 1) :
    \A other \in 0..(Len(result.issues) - 1) :
      ScenarioE(shown, other) =>
        LET parts == viewParts
        IN \A k \in 1..Len(parts) :
             isOver(parts, k, viewLocations[other + 1]) =>
               /\ ~parts[k].clickable
               /\ parts[k].issueIndex = NoIssue

\* a located issue is selected
SelectedLocated ==
  /\ selectedIssueIndex # NoIssue
  /\ selectedIssueIndex < Len(viewLocations)
  /\ IsLocated(viewLocations[selectedIssueIndex + 1])

\* the offsets of original that lie in a highlighted removed or unchanged part
highlightedOffsets(parts) ==
  UNION {IF parts[k].highlighted /\ ~parts[k].added
         THEN partStart(parts, k)..(partEnd(parts, k) - 1) ELSE {} :
         k \in 1..Len(parts)}

\* the offsets of original that the diff of original and current deletes
removedOffsets(parts) ==
  UNION {IF parts[k].removed
         THEN partStart(parts, k)..(partEnd(parts, k) - 1) ELSE {} :
         k \in 1..Len(parts)}

\* C10 as stated: with a located issue selected, the highlighted parts cover
\* exactly the characters of original in the issue's range [start, end): every
\* character of the range is in a highlighted part and no part of any kind
\* outside of it (an added part included) is highlighted.
C10_ExactHighlight ==
  SelectedLocated =>
    LET parts == viewParts
        loc == viewLocations[selectedIssueIndex + 1]
    IN /\ highlightedOffsets(parts) = loc.start..(loc.end - 1)
       /\ \A k \in 1..Len(parts) : parts[k].highlighted => ~parts[k].added

\* C10 as amended: with a located issue selected, the highlighted removed
\* parts cover exactly the characters of the range that the diff of original
\* and current deletes, which is the whole range while current is the
\* corrected text; an unchanged part is never highlighted; a highlighted added
\* part is anchored at an offset of original within [start, end].
C10_HighlightWithinRange ==
  SelectedLocated =>
    LET parts == viewParts
        loc == viewLocations[selectedIssueIndex + 1]
        range == loc.start..(loc.end - 1)
    IN /\ highlightedOffsets(parts) = range \cap removedOffsets(parts)
       /\ currentText = result.correctedText =>
            highlightedOffsets(parts) = range
       /\ \A k \in 1..Len(parts) :
            parts[k].highlighted =>
              /\ parts[k].added \/ parts[k].removed
              /\ parts[k].added =>
                   /\ loc.start <= partStart(parts, k)
                   /\ partStart(parts, k) <= loc.end

\* the selected issue is located at a non-empty range, its deleted characters
\* are highlighted and so is the added part that holds its suggestion
C10_Witness ==
  /\ SelectedLocated
  /\ LET parts == viewParts
         loc == viewLocations[selectedIssueIndex + 1]
     IN /\ loc.start < loc.end
        /\ \E k \in 1..Len(parts) : parts[k].highlighted /\ parts[k].removed
        /\ \E k \in 1..Len(parts) : parts[k].highlighted /\ parts[k].added

(***************************************************************************)
(* Properties of the diff, checked under SpecDiff.                         *)
(***************************************************************************)
\* the texts of the changes from k on that are not of the kind skipped
\* ("added" or "removed"), concatenated
RECURSIVE textWithout(_, _, _)
textWithout(ops, skipped, k) ==
  IF k > Len(ops) THEN <<>>
  ELSE (IF (skipped = "added" /\ ops[k].added)
           \/ (skipped = "removed" /\ ops[k].removed)
        THEN <<>> ELSE ops[k].value)
       \o textWithout(ops, skipped, k + 1)

\* C6: in the changes the renderer works on, the texts of the changes that
\* are not insertions concatenate to a, and the texts of the changes that are
\* not deletions concatenate to b.
C6_DiffReconstructs ==
  changes # <<>> =>
    /\ textWithout(changes, "added", 1) = originalText
    /\ textWithout(changes, "removed", 1) = currentText

\* a diff with an unchanged, a deleted and an inserted run
C6_Witness ==
  /\ \E k \in 1..Len(changes) : changes[k].added
  /\ \E k \in 1..Len(changes) : changes[k].removed
  /\ \E k \in 1..Len(changes) : ~changes[k].added /\ ~changes[k].removed

(***************************************************************************)
(* Properties of the stream, checked under SpecStream.                     *)
(***************************************************************************)
\* C4: on either provider path, the call ends with an error only when the
\* tolerant parser recovers no corrected text from the accumulated text.
C4_NoFailureAfterRecovery ==
  outcome = "threw" => ~truthy(parsePartialJson(fullText).correctedText)

\* the length of the shortest prefix of Scenario B that holds the closing
\* quote of the corrected text
ScenarioBClosed ==
  Len(<<"{">> \o Member(NameCorrectedText, Str(ScenarioBText)))

\* C5 (Scenario B): for every prefix of the Scenario B text that holds the
\* closing quote of the corrected text, the tolerant parse has that corrected
\* text and has the empty list, not undefined, as its issues.
C5_ScenarioB ==
  (/\ response = ScenarioB
   /\ sent >= ScenarioBClosed
   /\ fullText = Substring(response, 0, sent)) =>
    /\ partial.correctedText.t = "string"
    /\ partial.correctedText.v = ScenarioBText
    /\ partial.issues.t = "array"
    /\ partial.issues.v = <<>>

(***************************************************************************)
(* Properties of the dispositions, checked under Spec.                     *)
(***************************************************************************)
\* the current text the single-issue actions produce from the corrected text
\* when the issues the disposition map lists are resolved one after another
\* in ascending index (handleAction, lines 272-274)
RECURSIVE textInIndexOrder(_, _, _, _)
textInIndexOrder(text, issues, status, idx) ==
  IF idx >= Len(issues) THEN text
  ELSE textInIndexOrder(
         IF idx \in DOMAIN status /\ status[idx] \in {"ignored", "whitelisted"}
         THEN revertedText(text, issues[idx + 1])
         ELSE text,
         issues, status, idx + 1)

\* C11: the current text is a function of the disposition map: whatever the
\* order in which the issues of the result were resolved, current is the
\* text that resolving the same issues in ascending index gives (a session
\* that reaches the same map in index order is always possible, so two
\* sessions with the same map and different texts exist exactly when this
\* fails).
C11_TextFunctionOfDispositions ==
  currentText =
    textInIndexOrder(result.correctedText, result.issues, issueStatus, 0)

\* the issues C12 calls visible: unresolved, and of a category the active
\* filter lets through ('style' lets 'style' and 'suggestion' through)
unresolvedMatching ==
  {i \in 0..(Len(result.issues) - 1) :
     /\ i \notin resolvedIndices
     /\ \/ activeFilter = "all"
        \/ result.issues[i + 1].type = activeFilter
        \/ /\ activeFilter = "style"
           /\ result.issues[i + 1].type \in {"style", "suggestion"}}

\* the state the single-issue action (handleAction, lines 260-278) leaves
\* when it is applied to the issues of targets one after another in
\* ascending index, from index idx on
RECURSIVE oneByOne(_, _, _, _, _, _)
oneByOne(issues, targets, action, idx, status, text) ==
  IF idx >= Len(issues) THEN [status |-> status, text |-> text]
  ELSE IF idx \notin targets
  THEN oneByOne(issues, targets, action, idx + 1, status, text)
  ELSE oneByOne(issues, targets, action, idx + 1,
                withStatus(status, idx, statusOf(action)),
                IF action = "ignore" \/ action = "whitelist"
                THEN revertedText(text, issues[idx + 1])
                ELSE text)

\* C12: acceptAll / ignoreAll leave the current text, the disposition map and
\* the resolved set that the single accept / ignore action leaves when it is
\* applied to every visible issue in ascending index; the dispositions of the
\* issues that are not visible are as before.
C12_BatchEqualsSequential ==
  [][\A a \in BatchActions :
       HandleBatchAction(a) =>
         LET r == oneByOne(result.issues, unresolvedMatching, a, 0,
                           issueStatus, currentText)
         IN /\ currentText' = r.text
            /\ issueStatus' = r.status
            /\ resolvedIndices' = resolvedIndices \cup unresolvedMatching
            /\ \A i \in DOMAIN issueStatus \ unresolvedMatching :
                 issueStatus'[i] = issueStatus[i]]_vars

\* ignoreAll under the 'style' filter has reverted a 'suggestion' issue and
\* left the typo next to it unresolved
C12_Witness ==
  /\ activeFilter = "style"
  /\ Len(result.issues) = 2
  /\ \E i \in resolvedIndices :
       /\ result.issues[i + 1].type = "suggestion"
       /\ issueStatus[i] = "ignored"
  /\ \E j \in 0..1 :
       /\ j \notin resolvedIndices
       /\ result.issues[j + 1].type = "typo"
  /\ currentText # result.correctedText

\* C13: an accept of an issue, and acceptAll, leave the current text as it
\* is; they set the disposition of the issue(s) they act on to 'accepted',
\* take them out of the unresolved set and change no other disposition.
C13_AcceptKeepsText ==
  [][/\ \A i \in visibleIssues :
          HandleAction(i, "accept") =>
            /\ currentText' = currentText
            /\ issueStatus' = withStatus(issueStatus, i, "accepted")
            /\ resolvedIndices' = resolvedIndices \cup {i}
     /\ HandleBatchAction("accept") =>
          /\ currentText' = currentText
          /\ resolvedIndices' = resolvedIndices \cup visibleIssues
          /\ DOMAIN issueStatus' = DOMAIN issueStatus \cup visibleIssues
          /\ \A i \in DOMAIN issueStatus' :
               issueStatus'[i] = IF i \in visibleIssues THEN "accepted"
                                 ELSE issueStatus[i]]_vars

\* an issue whose suggestion differs from its original has been accepted and
\* the current text is still the corrected text
C13_Witness ==
  /\ \E i \in resolvedIndices : issueStatus[i] = "accepted"
  /\ \A i \in resolvedIndices : issueStatus[i] = "accepted"
  /\ Cardinality(resolvedIndices) = 2
  /\ currentText = result.correctedText
  /\ currentText # originalText

\* the words of a list
wordsOf(list) == {list[k] : k \in 1..Len(list)}

\* C14: a whitelist action on issue i hands issue i's original snippet to the
\* whitelist collaborator once: afterwards the whitelist holds the snippet,
\* every word it held before is where it was, and at most the one entry for
\* the snippet is new.  An accept, an ignore, acceptAll and ignoreAll leave
\* the whitelist alone.
C14_WhitelistNotification ==
  [][/\ \A i \in visibleIssues :
          HandleAction(i, "whitelist") =>
            LET word == result.issues[i + 1].original
            IN /\ word \in wordsOf(whitelist')
               /\ SubSeq(whitelist', 1, Len(whitelist)) = whitelist
               /\ Len(whitelist') =
                    Len(whitelist) + (IF word \in wordsOf(whitelist) THEN 0 ELSE 1)
     /\ \A i \in visibleIssues : \A a \in {"accept", "ignore"} :
          HandleAction(i, a) => whitelist' = whitelist
     /\ \A a \in BatchActions :
          HandleBatchAction(a) => whitelist' = whitelist]_vars

\* one issue has been whitelisted and another ignored: the whitelist holds
\* the original snippet of the first and nothing else
C14_Witness ==
  /\ Len(result.issues) = 2
  /\ \E i \in resolvedIndices : \E j \in resolvedIndices :
       /\ issueStatus[i] = "whitelisted"
       /\ issueStatus[j] = "ignored"
       /\ result.issues[i + 1].original # result.issues[j + 1].original
       /\ whitelist = <<result.issues[i + 1].original>>

(***************************************************************************)
(* Properties of the scroll synchronisation, checked under SpecSync.       *)
(***************************************************************************)
\* C15: the effects that run for a selection made from the text pane do not
\* scroll the text pane (they take no lock and schedule no release), the
\* effects that run for a selection made from the list schedule no scroll of
\* the list, and every scroll of the list that is pending or carried out was
\* scheduled for a selection made from the text pane.
C15_ScrollOriginGuard ==
  [][/\ (ScrollEffects /\ selectionSource = "text") =>
          UNCHANGED <<isAutoScrolling, releaseTimers>>
     /\ (ScrollEffects /\ selectionSource = "list") =>
          listTimers' = listTimers
     /\ \A k \in 1..Len(listTimers') : listTimers'[k].source = "text"]_vars

\* the effects have run for a selection made from the list: the text pane
\* is being scrolled to the selected issue and no scroll of the list is
\* pending
C15_Witness ==
  /\ selectedIssueIndex # NoIssue
  /\ selectionSource = "list"
  /\ effectDeps = <<selectedIssueIndex, selectionSource>>
  /\ textElementOf(selectedIssueIndex)
  /\ isAutoScrolling
  /\ releaseTimers = 1
  /\ listTimers = <<>>

\* C16: whenever the lock isAutoScrolling is held it is released later, also
\* when the scroll carried out under it fails.
C16_LockReleased == isAutoScrolling ~> ~isAutoScrolling

(***************************************************************************)
(* Properties of parsePartialJson, checked under SpecParse.                *)
(***************************************************************************)
\* the categories of IssueType
RecognizedTypes ==
  {TypoType, <<"g", "r", "a", "m", "m", "a", "r">>,
   <<"p", "u", "n", "c", "t", "u", "a", "t", "i", "o", "n">>,
   <<"s", "t", "y", "l", "e">>,
   <<"s", "u", "g", "g", "e", "s", "t", "i", "o", "n">>,
   <<"s", "e", "n", "s", "i", "t", "i", "v", "e">>,
   <<"p", "r", "i", "v", "a", "c", "y">>,
   <<"f", "o", "r", "m", "a", "t">>}

\* the complete objects of the array that opens before offset i, in stream
\* order: each is read as JSON reads an object, so that a brace inside a
\* string is part of the string; reading stops at the first element that is
\* not a complete object
RECURSIVE completeObjects(_, _)
completeObjects(s, i) ==
  LET p == skipSpaces(s, i)
  IN IF charAt(s, p) = "," THEN completeObjects(s, p + 1)
     ELSE IF charAt(s, p) # "{" THEN <<>>
     ELSE LET v == parseValue(s, p)
          IN IF v.ok THEN <<v.value>> \o completeObjects(s, v.next) ELSE <<>>

\* a non-empty original, a non-empty suggestion and a recognised category
isIssue(obj) ==
  /\ getField(obj, KeyOriginal).t = "string"
  /\ getField(obj, KeyOriginal).v # <<>>
  /\ getField(obj, KeySuggestion).t = "string"
  /\ getField(obj, KeySuggestion).v # <<>>
  /\ getField(obj, KeyType).t = "string"
  /\ getField(obj, KeyType).v \in RecognizedTypes

RECURSIVE onlyIssues(_)
onlyIssues(objects) ==
  IF objects = <<>> THEN <<>>
  ELSE (IF isIssue(Head(objects)) THEN <<Head(objects)>> ELSE <<>>)
       \o onlyIssues(Tail(objects))

\* C17: for every input in which the issues array has opened, the issues the
\* parser returns are exactly, and in stream order, the complete objects of
\* the array that have a non-empty original, a non-empty suggestion and a
\* recognised category, whatever characters their string values hold; an
\* object that is still incomplete is not among them.
C17_IssueExtractionExact ==
  LET open == matchField(fullText, KeyIssues, {"["}, 0)
  IN (outcome = "parsed" /\ open # -1) =>
       /\ partial.issues.t = "array"
       /\ partial.issues.v = onlyIssues(completeObjects(fullText, open + 1))

\* the offset of the first quote from q on that is not part of an escape,
\* the end of the text when there is none
RECURSIVE unescapedQuote(_, _)
unescapedQuote(s, q) ==
  IF q >= Len(s) THEN Len(s)
  ELSE IF s[q + 1] = Quote THEN q
  ELSE IF s[q + 1] = Backslash
  THEN (IF q + 2 > Len(s) THEN Len(s) ELSE unescapedQuote(s, q + 2))
  ELSE unescapedQuote(s, q + 1)

\* the standard decoding of a string body, read left to right; a backslash
\* that ends the text is dropped
RECURSIVE decoded(_, _)
decoded(raw, j) ==
  IF j >= Len(raw) THEN <<>>
  ELSE IF raw[j + 1] # Backslash THEN <<raw[j + 1]>> \o decoded(raw, j + 1)
  ELSE IF j + 1 >= Len(raw) THEN <<>>
  ELSE <<escapeOf(raw[j + 2])>> \o decoded(raw, j + 2)

\* C18: for every input in which the value of correctedText has opened, the
\* corrected text the parser returns is the standard decoding of the text
\* between the opening quote and the next unescaped quote (the end of the
\* input when there is none); for a complete record it is what JSON.parse
\* returns for correctedText.
C18_CorrectedTextDecoded ==
  LET open == matchField(fullText, KeyCorrectedText, {Quote}, 0)
      whole == JSONparse(fullText)
  IN (outcome = "parsed" /\ open # -1) =>
       /\ partial.correctedText =
            String(decoded(Substring(fullText, open + 1,
                                     unescapedQuote(fullText, open + 1)), 0))
       /\ whole.ok =>
            partial.correctedText = getField(whole.value, NameCorrectedText)

(***************************************************************************)
(* Properties of issues without a location, checked under Spec.            *)
(***************************************************************************)
\* the issues of the result that issueLocations left at start = end = -1
unlocatedIssues ==
  LET locs == viewLocations
  IN {i \in 0..(Len(locs) - 1) : locs[i + 1].start = -1 /\ locs[i + 1].end = -1}

\* C19: an issue whose location is start = end = -1 is carried by no rendered
\* part, and while it is the selected issue no part is highlighted; it is
\* nevertheless in the filtered list the cards are drawn from exactly when it
\* is unresolved and matches the filter.
C19_UnlocatedHasNoTarget ==
  LET parts == viewParts
  IN \A i \in unlocatedIssues :
       /\ \A k \in 1..Len(parts) : parts[k].issueIndex # i
       /\ selectedIssueIndex = i =>
            \A k \in 1..Len(parts) : ~parts[k].highlighted
       /\ (/\ i \notin resolvedIndices
           /\ matchesFilter(result.issues[i + 1].type, activeFilter))
            => i \in visibleIssues

\* an unlocated issue is selected and listed while the text shows a change
C19_Witness ==
  /\ selectedIssueIndex \in unlocatedIssues
  /\ selectedIssueIndex \in visibleIssues
  /\ \E k \in 1..Len(viewParts) : viewParts[k].removed \/ viewParts[k].added

(***************************************************************************)
(* Totality of the render, checked under SpecHover.                        *)
(***************************************************************************)
\* C20: in every state of the view, whatever selection or hover index an
\* earlier result left behind, rendering completes without a thrown error:
\* the issue the hover card shows, the issue of the selected index that is
\* given a target, and the issue of every rendered part are issues of the
\* current list.
C20_RenderTotal ==
  /\ ~renderThrows
  /\ hoveredIssue # NoIssue => hoveredIssue < Len(result.issues)
  /\ targetOf(selectedIssueIndex, viewLocations).defined =>
       selectedIssueIndex < Len(result.issues)
  /\ \A i \in partIssues : i < Len(result.issues)

(***************************************************************************)
(* The diff of a text with itself, checked under SpecDiff.                 *)
(***************************************************************************)
\* C21: for every text a, the empty text included, the changes the renderer
\* works on for (a, a) are a single unchanged change whose value is a.
C21_IdentityDiff ==
  (changes # <<>> /\ originalText = currentText) =>
    changes = <<[value |-> originalText, added |-> FALSE, removed |-> FALSE]>>

\* C21 as amended: for every non-empty text a the changes for (a, a) are a
\* single unchanged change whose value is a; for the empty text they are a
\* single inserted change whose value is empty.
C21_IdentityDiffNonEmpty ==
  (changes # <<>> /\ originalText = currentText) =>
    changes = <<[value |-> originalText, added |-> originalText = <<>>,
                 removed |-> FALSE]>>

\* a text of the greatest length has been compared with itself
C21_Witness ==
  /\ changes # <<>>
  /\ originalText = currentText
  /\ Len(originalText) = MaxLen

(***************************************************************************)
(* Validity of the selection, checked under Spec.                          *)
(***************************************************************************)
\* C22: after any sequence of card clicks, part clicks, filter changes and
\* accept / ignore / whitelist / batch actions, the selected index is null
\* or the index of an issue that is unresolved and matches the active
\* filter.
C22_SelectionValid ==
  selectedIssueIndex = NoIssue \/ selectedIssueIndex \in visibleIssues

(***************************************************************************)
(* The lock over overlapping auto-scrolls, checked under SpecSync.         *)
(***************************************************************************)
\* C23: while an auto-scroll is within its 800 ms window, that is while its
\* release timer is pending, the lock isAutoScrolling is held, so that no
\* scroll handler changes the selection; the release timer of an earlier
\* auto-scroll does not release the lock during the window of a later one.
C23_LockCoversScroll == releaseTimers > 0 => isAutoScrolling

(***************************************************************************)
(* The block cursor and the located ranges, checked under SpecLocate.      *)
(***************************************************************************)
\* the blocks of the diff the locator searches
locatorBlocks == changeBlocks(diffChars(originalText, result.correctedText))

\* the block cursor before issue i (1-based) is processed
cursorBefore(i) == IF i = 1 THEN 0 ELSE located.cursorAt[i - 1]

\* the 0-based indices of the blocks at or after the cursor that match issue i
matchingFrom(i) ==
  {j \in cursorBefore(i)..(Len(locatorBlocks) - 1) :
     hasMatch(locatorBlocks[j + 1], result.issues[i])}

\* C24: the block cursor starts at 0 and never decreases from one issue to
\* the next; an issue that matches no block at or after the cursor is
\* unlocated and leaves the cursor where it was; a matched issue is located
\* within the first matching block at or after the cursor and sets the cursor
\* to that block, so that no located issue lies in an earlier block than a
\* previously located one.
C24_MonotonicCursor ==
  (located.done /\ originalText # <<>>) =>
    /\ Len(located.cursorAt) = Len(result.issues)
    /\ \A i \in 1..Len(result.issues) :
         /\ cursorBefore(i) <= located.cursorAt[i]
         /\ matchingFrom(i) = {} =>
              /\ located.locations[i] = Unlocated
              /\ located.cursorAt[i] = cursorBefore(i)
         /\ matchingFrom(i) # {} =>
              /\ located.cursorAt[i] \in matchingFrom(i)
              /\ \A j \in matchingFrom(i) : located.cursorAt[i] <= j
              /\ located.locations[i].start >=
                   locatorBlocks[located.cursorAt[i] + 1].origStart
              /\ located.locations[i].end <=
                   locatorBlocks[located.cursorAt[i] + 1].origEnd

\* two issues are located in two different blocks, the second one after the
\* cursor has advanced
C24_Witness ==
  /\ located.done
  /\ Len(located.cursorAt) = 2
  /\ located.cursorAt[1] = 0
  /\ located.cursorAt[2] = 1
  /\ located.locations[1] # Unlocated
  /\ located.locations[2] # Unlocated

\* C25: every location with start < end satisfies
\* 0 <= start < end <= Len(original) and original[start, end) is the issue's
\* original snippet; every location with start = end other than -1 satisfies
\* 0 <= start <= Len(original) and is the start offset of a change block.
C25_RangesAccurate ==
  located.done =>
    \A i \in 1..Len(located.locations) :
      LET loc == located.locations[i]
      IN /\ loc.start < loc.end =>
              /\ 0 <= loc.start
              /\ loc.end <= Len(originalText)
              /\ Substring(originalText, loc.start, loc.end) =
                   result.issues[i].original
         /\ (loc.start = loc.end /\ loc.start # -1) =>
              /\ 0 <= loc.start
              /\ loc.start <= Len(originalText)
              /\ \E b \in 1..Len(locatorBlocks) :
                   locatorBlocks[b].origStart = loc.start
         /\ loc.start <= loc.end

\* one issue is located at a range that does not start the text and another
\* at an insertion point that is not the start of the text
C25_Witness ==
  /\ located.done
  /\ \E i \in 1..Len(located.locations) :
       /\ 0 < located.locations[i].start
       /\ located.locations[i].start < located.locations[i].end
  /\ \E i \in 1..Len(located.locations) :
       /\ 0 < located.locations[i].start
       /\ located.locations[i].start = located.locations[i].end

(***************************************************************************)
(* Properties of the rendered parts, checked under Spec.                   *)
(***************************************************************************)
\* C26: whatever the selection, the filter and the resolved set, the values
\* of the parts that are not deletions concatenate, in order, to the current
\* text and the values of the parts that are not insertions to the original
\* text: splitting a change at the bounds of the highlight neither drops nor
\* repeats nor reorders a character.
C26_PartsConserveText ==
  LET parts == viewParts
  IN /\ textWithout(parts, "removed", 1) = currentText
     /\ textWithout(parts, "added", 1) = originalText

\* a deleted run is split: its highlighted piece is followed by a piece that
\* is not highlighted
C26_Witness ==
  LET parts == viewParts
  IN \E k \in 1..(Len(parts) - 1) :
       /\ parts[k].removed /\ parts[k].highlighted
       /\ parts[k + 1].removed /\ ~parts[k + 1].highlighted

issuesOf(parsed) == IF parsed.issues.t = "array" THEN parsed.issues.v ELSE <<>>

isPrefixOf(a, b) == Len(a) <= Len(b) /\ SubSeq(b, 1, Len(a)) = a

\* the parse of the accumulated text without its last character
parseBefore == parsePartialJson(Substring(fullText, 0, Len(fullText) - 1))

\* C28: the issues parsed from a prefix of a stream are a prefix of the
\* issues parsed from the prefix that is one character longer, hence, the
\* relation being transitive and the prefixes being all the states, of the
\* issues parsed from every longer prefix: an issue keeps its index while the
\* answer streams in.
C28_IssuesGrowByAppending ==
  (outcome = "parsed" /\ fullText # <<>>) =>
    isPrefixOf(issuesOf(parseBefore), issuesOf(partial))

\* the character that completes the second object of the array has arrived:
\* the parse before it had one issue, the parse with it has two
C28_Witness ==
  /\ outcome = "parsed"
  /\ fullText # <<>>
  /\ Len(issuesOf(parseBefore)) = 1
  /\ Len(issuesOf(partial)) = 2

(***************************************************************************)
(* The text accumulated from the event stream, checked under SpecStream.   *)
(***************************************************************************)
\* C29: on the OpenAI-compatible path the accumulated text is the
\* concatenation, in order, of the delta contents the stream has delivered,
\* however the reads cut the stream of lines into chunks.
C29_ChunkingIndependent ==
  provider = "openai" => fullText = Substring(response, 0, sent)

(***************************************************************************)
(* Properties of the throttle, checked under SpecThrottle.                 *)
(***************************************************************************)
\* C30: every call of a throttled scroll handler is followed by a run of the
\* handler at or after the call, also when calls keep arriving more often
\* than the delay, and at most one trailing run of a handler is pending at
\* any time.
C30_ThrottleNotDebounce ==
  /\ [](\A h \in Handlers : Len(timers[h]) <= 1)
  /\ \A h \in Handlers : unserved[h] ~> ~unserved[h]

\* a call of the text handler is waiting for its trailing run, which was
\* set again by a later call and is due before a whole delay has passed
C30_Witness ==
  /\ unserved["text"]
  /\ timeout["text"] = "pending"
  /\ timers["text"] = <<Step>>
  /\ sinceLastRun["text"] = Delay - Step
====
